---- MODULE Spec2Model ----
(***************************************************************************)
(* A model of the FastEdge Rust SDK's boundary layer:                      *)
(*   - the wire-list codec            (src/src/helper.rs)                  *)
(*   - the raw FFI wrappers           (src/src/proxywasm/*.rs)             *)
(*   - the HTTP type bridge           (src/src/lib.rs, src/src/http_client.rs,*)
(*                                     src/fastedge-rust-sdk, src/rust)    *)
(*   - the generated entry point      (src/derive/src/lib.rs)              *)
(*   - the outbound client            (src/src/http_client.rs)             *)
(* Byte strings are sequences of integers 0..255.  Each component has its  *)
(* own next-state relation and specification; the variables of the other   *)
(* components keep their initial values.                                   *)
(***************************************************************************)
EXTENDS Integers, Sequences, FiniteSets, TLC

VARIABLES
    wirePc,      \* "idle" | "done" | "rawDone": position of the wire-codec caller
    wireList,    \* the list handed to serialize_list
    wireBytes,   \* the buffer handed to deserialize_list
    wireOut,     \* what deserialize_list did: [abort, slices]
    ffiPc,       \* "idle" | "hostReturned" | "returned" | "dropped"
    ffiFn,       \* the wrapper being called
    ffiStatus,   \* the status code the host function returned
    ffiPtr,      \* "null", or "buf" when the host wrote a buffer pointer
    ffiData,     \* the bytes of the host's buffer (return_size is its length)
    ffiAdopted,  \* how often the buffer was adopted (Vec::from_raw_parts)
    ffiFreed,    \* how often the buffer was freed (its owner dropped)
    ffiResult,   \* what the wrapper returned
    ffiHandle,   \* the handle out-parameter of proxy_kv_store_open
    brPc,        \* "idle" | "done": position of the bridge's caller
    brOp,        \* the conversion pair exercised
    brIn,        \* its input
    brMid,       \* the result of the first conversion
    brOut,       \* the result of the second conversion
    pc,          \* position inside the generated process function
    req,         \* the host request process was called with
    request,     \* the decoded ergonomic request handed to the handler
    handlerCalls,  \* how often the user handler was invoked
    handlerResult, \* what the user handler returned
    response,    \* the record process returned to the host
    clPc,        \* position inside send_request
    clReq,       \* the ergonomic request send_request was called with
    clHostReq,   \* the result of converting it to the host request
    clHostCalls, \* how often the host's outbound-call primitive was invoked
    clHostResult,  \* what the host's primitive returned
    clTranslated,  \* how often a host response was converted back
    clResult,    \* what send_request returned
    bodyPc,      \* "none" | "built": whether a Body exists
    bodyCtor,    \* the constructor the Body was made with
    bodyVal,     \* the Body
    bodyReads,   \* how many operations were applied to the Body
    bodySeen,    \* what the last operation on the Body returned
    rdPc,        \* position inside the example helper `request`
    rdExample,   \* the example whose helper runs
    rdReq,       \* the request of the current call of `request`
    rdHops,      \* how many redirects were followed
    rdSent,      \* how often send_request was called
    rdLast,      \* what the last send_request returned
    rdResult     \* what `request` returned

wireVars == <<wirePc, wireList, wireBytes, wireOut>>

ffiVars == <<ffiPc, ffiFn, ffiStatus, ffiPtr, ffiData, ffiAdopted, ffiFreed, ffiResult, ffiHandle>>

brVars == <<brPc, brOp, brIn, brMid, brOut>>

entryVars == <<pc, req, request, handlerCalls, handlerResult, response>>

clientVars == <<clPc, clReq, clHostReq, clHostCalls, clHostResult, clTranslated, clResult>>

bodyVars == <<bodyPc, bodyCtor, bodyVal, bodyReads, bodySeen>>

rdVars == <<rdPc, rdExample, rdReq, rdHops, rdSent, rdLast, rdResult>>

vars == <<wireVars, ffiVars, brVars, entryVars, clientVars, bodyVars, rdVars>>

(***************************************************************************)
(* Bounds of the model.                                                    *)
(***************************************************************************)
MaxItems == 2
MaxItemLen == 2
MaxBufLen == 2
MaxStatus == 3
MaxHostItems == 2
MaxHeaders == 3
MaxUriLen == 2
MaxReqHeaders == 1
MaxResHeaders == 1
MaxRawWords == 3
MaxRawTail == 3
MaxBodyLen == 2
MaxBodyReads == 2
MaxHops == 2

\* Sample byte values: zero, a printable byte, the largest byte.
SampleBytes == {0, 65, 255}

BSeq(S, n) == UNION {[1..k -> S] : k \in 0..n}

(***************************************************************************)
(* 32-bit unsigned arithmetic.  u32, and usize on the wasm32 target the    *)
(* SDK is built for, are 32 bits wide; a value is kept as two 16-bit limbs *)
(* [hi, lo] standing for hi * 2^16 + lo, and arithmetic wraps modulo 2^32. *)
(***************************************************************************)
Limb == 256 * 256

U32(n) == [hi |-> (n \div Limb) % Limb, lo |-> n % Limb]

AddU(a, b) ==
    LET l == a.lo + b.lo
        h == a.hi + b.hi + (l \div Limb)
    IN  [hi |-> h % Limb, lo |-> l % Limb]

\* a * 2 modulo 2^32: a table of two-byte length fields
Mul2U(a) ==
    LET l == a.lo * 2
        h == a.hi * 2 + (l \div Limb)
    IN  [hi |-> h % Limb, lo |-> l % Limb]

Mul4U(a) ==
    LET l == a.lo * 4
        h == a.hi * 4 + (l \div Limb)
    IN  [hi |-> h % Limb, lo |-> l % Limb]

\* a <= b: the comparison off by one
LeU(a, b) == a.hi < b.hi \/ (a.hi = b.hi /\ a.lo <= b.lo)

LtU(a, b) == a.hi < b.hi \/ (a.hi = b.hi /\ a.lo < b.lo)

(***************************************************************************)
(* Wire-list codec: src/src/helper.rs                                      *)
(***************************************************************************)

\* u32::to_le_bytes / (x as i32).to_le_bytes for 0 <= x < 2^31
ToLeBytes(x) ==
    << x % 256, (x \div 256) % 256, (x \div 65536) % 256, (x \div 16777216) % 256 >>

\* u32::from_le_bytes(bytes[s..s+4]) as usize, with s a zero-based offset
FromLeBytes(bytes, s) ==
    [hi |-> bytes[s + 3] + 256 * bytes[s + 4], lo |-> bytes[s + 1] + 256 * bytes[s + 2]]

RECURSIVE ConcatLengths(_)
\* the loop writing one length field per item
ConcatLengths(list) ==
    IF list = << >> THEN << >>
    ELSE ToLeBytes(Len(Head(list))) \o ConcatLengths(Tail(list))

RECURSIVE ConcatPayloads(_)
\* the loop writing each payload followed by one zero byte
ConcatPayloads(list) ==
    IF list = << >> THEN << >>
    ELSE Head(list) \o << 0 >> \o ConcatPayloads(Tail(list))

\* tests::serialize_list
serialize_list(list) ==
    ToLeBytes(Len(list)) \o ConcatLengths(list) \o ConcatPayloads(list)

\* The result of deserialize_list: either an assertion (or a slice bounds
\* check) aborted the call, or the returned slices, each as the zero-based
\* offset and the length it borrows from the buffer.
Aborted == [abort |-> TRUE, slices |-> << >>]
Returned(sl) == [abort |-> FALSE, slices |-> sl]

\* the payload cursor after one item without the separator: p += size
NextPayloadNoSep(e) == e

\* the payload cursor after one item ending at e = p + size: p += size + 1
NextPayload(e) == AddU(e, U32(1))

RECURSIVE DeserializeLoop(_, _, _, _, _)
\* the body of `for n in 0..size`; n stays below Len(bytes), far from 2^30
DeserializeLoop(bytes, size, n, p, list) ==
    IF ~LtU(U32(n), size) THEN Returned(list)
    ELSE LET s == 4 + n * 4 IN
         IF ~(Len(bytes) > s + 4) THEN Aborted
         ELSE LET sz == FromLeBytes(bytes, s)
                  e == AddU(p, sz)
              IN  IF ~LtU(e, U32(Len(bytes))) THEN Aborted
                  \* &bytes[p..p + size] panics when p + size wrapped below p
                  ELSE IF LtU(e, p) THEN Aborted
                  ELSE DeserializeLoop(bytes, size, n + 1, NextPayload(e),
                                       Append(list, [off |-> p.lo, len |-> e.lo - p.lo]))

\* deserialize_list without the early return: the count is read from a
\* buffer too short to hold it, and bytes[0..4] is out of range
deserialize_list_unguarded(bytes) ==
    IF Len(bytes) < 4 THEN Aborted
    ELSE LET size == FromLeBytes(bytes, 0) IN
         DeserializeLoop(bytes, size, 0, AddU(U32(4), Mul4U(size)), << >>)

deserialize_list(bytes) ==
    IF Len(bytes) < 4 THEN Returned(<< >>)
    ELSE LET size == FromLeBytes(bytes, 0) IN
         DeserializeLoop(bytes, size, 0, AddU(U32(4), Mul4U(size)), << >>)

\* the bytes a returned slice borrows from the buffer
SliceBytes(bytes, sl) == SubSeq(bytes, sl.off + 1, sl.off + sl.len)

SlicesBytes(bytes, out) == [i \in 1..Len(out.slices) |-> SliceBytes(bytes, out.slices[i])]

WireLists == BSeq(BSeq(SampleBytes, MaxItemLen), MaxItems)

\* tests::test_serialize_list: serialize a list, then deserialize the buffer
SerializeDeserialize ==
    /\ wirePc = "idle"
    /\ \E xs \in WireLists :
          /\ wireList' = xs
          /\ wireBytes' = serialize_list(xs)
          /\ wireOut' = deserialize_list(serialize_list(xs))
    /\ wirePc' = "done"
    /\ UNCHANGED <<ffiVars, brVars, entryVars, clientVars, bodyVars, rdVars>>

\* Four-byte fields of the buffers a host can hand over: the counts and
\* lengths 0, 1 and 2, and values whose multiples and sums wrap in 32 bits
\* (2^30, 2^32 - 3, 2^32 - 1)
RawWords == { << 0, 0, 0, 0 >>, << 1, 0, 0, 0 >>, << 2, 0, 0, 0 >>,
              << 0, 0, 0, 64 >>, << 253, 255, 255, 255 >>, << 255, 255, 255, 255 >> }

RECURSIVE ConcatWords(_)
ConcatWords(ws) == IF ws = << >> THEN << >> ELSE Head(ws) \o ConcatWords(Tail(ws))

\* Buffers of any content: the buffers shorter than a count field, and some
\* four-byte fields followed by a few bytes
RawBuffers ==
    BSeq(SampleBytes, 3)
        \cup { ConcatWords(ws) \o t : ws \in BSeq(RawWords, MaxRawWords) \ {<< >>},
                                       t \in BSeq({0, 65}, MaxRawTail) }

\* deserialize_list is called on a buffer of any content, as the list
\* wrappers of key_value.rs call it on whatever the host returned
DeserializeRaw ==
    /\ wirePc = "idle"
    /\ \E b \in RawBuffers :
          /\ wireBytes' = b
          /\ wireOut' = deserialize_list(b)
    /\ wireList' = << >>
    /\ wirePc' = "rawDone"
    /\ UNCHANGED <<ffiVars, brVars, entryVars, clientVars, bodyVars, rdVars>>

\* the caller drops the results and is ready for the next call
WireReset ==
    /\ wirePc \in {"done", "rawDone"}
    /\ wirePc' = "idle"
    /\ wireList' = << >>
    /\ wireBytes' = << >>
    /\ wireOut' = Returned(<< >>)
    /\ UNCHANGED <<ffiVars, brVars, entryVars, clientVars, bodyVars, rdVars>>

WireInit ==
    /\ wirePc = "idle"
    /\ wireList = << >>
    /\ wireBytes = << >>
    /\ wireOut = Returned(<< >>)

(***************************************************************************)
(* UTF-8 as std checks it (String::from_utf8, String::from_utf8_lossy).    *)
(***************************************************************************)
IsCont(b) == b \in 128..191

\* the number of bytes the lead byte announces; 0 for a byte that cannot lead
Utf8Width(b) ==
    IF b < 128 THEN 1
    ELSE IF b \in 194..223 THEN 2
    ELSE IF b \in 224..239 THEN 3
    ELSE IF b \in 240..244 THEN 4
    ELSE 0

\* the range the second byte must lie in, by lead byte
SecondOk(b0, b1) ==
    IF b0 = 224 THEN b1 \in 160..191
    ELSE IF b0 = 237 THEN b1 \in 128..159
    ELSE IF b0 = 240 THEN b1 \in 144..191
    ELSE IF b0 = 244 THEN b1 \in 128..143
    ELSE IsCont(b1)

\* the chunk starting at index i (1-based): a valid character, or the
\* maximal invalid prefix, with its length
Utf8Chunk(bytes, i) ==
    LET w == Utf8Width(bytes[i])
        n == Len(bytes)
    IN  IF w = 0 THEN [valid |-> FALSE, len |-> 1]
        ELSE IF w = 1 THEN [valid |-> TRUE, len |-> 1]
        ELSE IF i + 1 > n \/ ~SecondOk(bytes[i], bytes[i + 1]) THEN [valid |-> FALSE, len |-> 1]
        ELSE IF w = 2 THEN [valid |-> TRUE, len |-> 2]
        ELSE IF i + 2 > n \/ ~IsCont(bytes[i + 2]) THEN [valid |-> FALSE, len |-> 2]
        ELSE IF w = 3 THEN [valid |-> TRUE, len |-> 3]
        ELSE IF i + 3 > n \/ ~IsCont(bytes[i + 3]) THEN [valid |-> FALSE, len |-> 3]
        ELSE [valid |-> TRUE, len |-> 4]

RECURSIVE Utf8ValidFrom(_, _)
Utf8ValidFrom(bytes, i) ==
    IF i > Len(bytes) THEN TRUE
    ELSE LET c == Utf8Chunk(bytes, i) IN
         c.valid /\ Utf8ValidFrom(bytes, i + c.len)

\* String::from_utf8(bytes).is_ok()
Utf8Valid(bytes) == Utf8ValidFrom(bytes, 1)

RECURSIVE Utf8LossyFrom(_, _)
Utf8LossyFrom(bytes, i) ==
    IF i > Len(bytes) THEN << >>
    ELSE LET c == Utf8Chunk(bytes, i) IN
         (IF c.valid THEN SubSeq(bytes, i, i + c.len - 1) ELSE << 239, 191, 189 >>)
            \o Utf8LossyFrom(bytes, i + c.len)

\* String::from_utf8_lossy(bytes): each invalid chunk becomes U+FFFD
Utf8Lossy(bytes) == Utf8LossyFrom(bytes, 1)

(***************************************************************************)
(* Raw FFI wrappers: src/src/proxywasm/{secret,dictionary,key_value}.rs    *)
(* A wrapper's outcome: the value it returns (or a panic), how often it    *)
(* adopted the host's buffer with Vec::from_raw_parts, how often it        *)
(* dropped an owner of the buffer before returning, and whether the        *)
(* returned value owns the buffer.                                         *)
(***************************************************************************)
Outcome(kind, val, adopts, drops, owns) ==
    [kind |-> kind, val |-> val, adopts |-> adopts, drops |-> drops, owns |-> owns]

\* format!("unexpected status: {}", status), kept as the status it prints
UnexpectedStatus(status) == [msg |-> "unexpected status", status |-> status]

PanicUnexpected(status) == Outcome("Panic", UnexpectedStatus(status), 0, 0, FALSE)

\* the `0 =>` arm shared by secret::get, get_effective_at and Store::get,
\* with Some(empty) in place of None for a null pointer
OkOptionFromRawEmpty(ptr, data) ==
    IF ptr # "null" THEN Outcome("OkSome", data, 1, 0, TRUE)
    ELSE Outcome("OkSome", << >>, 0, 0, FALSE)

\* the `0 =>` arm shared by secret::get, get_effective_at and Store::get
OkOptionFromRaw(ptr, data) ==
    IF ptr # "null" THEN Outcome("OkSome", data, 1, 0, TRUE)
    ELSE Outcome("OkNone", << >>, 0, 0, FALSE)

\* secret::get
secret_get(status, ptr, data) ==
    IF status = 0 THEN OkOptionFromRaw(ptr, data)
    ELSE IF status = 1 THEN Outcome("OkNone", << >>, 0, 0, FALSE)
    ELSE PanicUnexpected(status)

\* secret::get_effective_at
secret_get_effective_at(status, ptr, data) ==
    IF status = 0 THEN OkOptionFromRaw(ptr, data)
    ELSE IF status = 1 THEN Outcome("OkNone", << >>, 0, 0, FALSE)
    ELSE PanicUnexpected(status)

\* dictionary::get with String::from_utf8_lossy in place of
\* String::from_utf8(data).ok()
dictionary_get_lossy(status, ptr, data) ==
    IF status = 0 THEN
        IF ptr # "null" THEN Outcome("Some", Utf8Lossy(data), 1, 1, TRUE)
        ELSE Outcome("None", << >>, 0, 0, FALSE)
    ELSE IF status = 1 THEN Outcome("None", << >>, 0, 0, FALSE)
    ELSE PanicUnexpected(status)

\* dictionary::get: String::from_utf8(data).ok() keeps the buffer in the
\* String, or drops it with the error
dictionary_get(status, ptr, data) ==
    IF status = 0 THEN
        IF ptr # "null" THEN
            IF Utf8Valid(data) THEN Outcome("Some", data, 1, 0, TRUE)
            ELSE Outcome("None", << >>, 1, 1, FALSE)
        ELSE Outcome("None", << >>, 0, 0, FALSE)
    ELSE IF status = 1 THEN Outcome("None", << >>, 0, 0, FALSE)
    ELSE PanicUnexpected(status)

ErrOther(status) == Outcome("Err", [error |-> "Other", text |-> UnexpectedStatus(status)], 0, 0, FALSE)

\* Store::open with the arm `1 => Err(Error::NoSuchStore)` left out
Store_openNoArm1(status, handle) ==
    IF status = 0 THEN Outcome("OkStore", [handle |-> handle], 0, 0, FALSE)
    ELSE IF status = 2 THEN Outcome("Err", [error |-> "AccessDenied"], 0, 0, FALSE)
    ELSE ErrOther(status)

\* Store::open: the Store holds whatever return_handler holds after the call
Store_open(status, handle) ==
    IF status = 0 THEN Outcome("OkStore", [handle |-> handle], 0, 0, FALSE)
    ELSE IF status = 1 THEN Outcome("Err", [error |-> "NoSuchStore"], 0, 0, FALSE)
    ELSE IF status = 2 THEN Outcome("Err", [error |-> "AccessDenied"], 0, 0, FALSE)
    ELSE ErrOther(status)

\* Store::get with an arm `1 => Ok(None)`, as secret::get has
Store_getNotFound(status, ptr, data) ==
    IF status = 0 THEN OkOptionFromRaw(ptr, data)
    ELSE IF status = 1 THEN Outcome("OkNone", << >>, 0, 0, FALSE)
    ELSE ErrOther(status)

\* Store::bf_exists: Ok(return_handler != 0) on status 0
Store_bf_exists(status, handle) ==
    IF status = 0 THEN Outcome("OkBool", [exists |-> handle # 0], 0, 0, FALSE)
    ELSE ErrOther(status)

\* utils::set_user_diag with the status of the host call ignored
set_user_diag_unchecked(status) == Outcome("Unit", << >>, 0, 0, FALSE)

\* utils::set_user_diag
set_user_diag(status) ==
    IF status # 0 THEN PanicUnexpected(status)
    ELSE Outcome("Unit", << >>, 0, 0, FALSE)

\* Store::get
Store_get(status, ptr, data) ==
    IF status = 0 THEN OkOptionFromRaw(ptr, data)
    ELSE ErrOther(status)

\* f64::from_le_bytes keeps the eight bytes as the bit pattern of the score
ZeroScore == << 0, 0, 0, 0, 0, 0, 0, 0 >>

\* the closure with the comparison `>=`: an item of exactly eight bytes is
\* taken as a score with an empty value
ScoredEntryAtLeast8(v) ==
    IF Len(v) >= 8
    THEN [value |-> SubSeq(v, 1, Len(v) - 8), score |-> SubSeq(v, Len(v) - 7, Len(v))]
    ELSE [value |-> << >>, score |-> ZeroScore]

\* the closure mapping one wire-list item to (value, score)
ScoredEntry(v) ==
    IF Len(v) > 8
    THEN [value |-> SubSeq(v, 1, Len(v) - 8), score |-> SubSeq(v, Len(v) - 7, Len(v))]
    ELSE [value |-> << >>, score |-> ZeroScore]

\* the `0 =>` arm of the list wrappers up to the copy of the items: the
\* adopted buffer is decoded into the items it holds, and dropped at the end
\* of the arm (an assertion of deserialize_list aborts the invocation instead)
ListFromRaw(ptr, data) ==
    IF ptr # "null" THEN
        LET out == deserialize_list(data) IN
        IF out.abort THEN Outcome("Panic", "assertion failed", 1, 0, FALSE)
        ELSE Outcome("OkList", SlicesBytes(data, out), 1, 1, FALSE)
    ELSE Outcome("OkList", << >>, 0, 0, FALSE)

\* Store::zrange_by_score
Store_zrange_by_score(status, ptr, data) ==
    IF status = 0 THEN
        LET o == ListFromRaw(ptr, data) IN
        IF o.kind = "OkList"
        THEN [o EXCEPT !.val = [i \in 1..Len(o.val) |-> ScoredEntry(o.val[i])]]
        ELSE o
    ELSE ErrOther(status)

\* Store::scan
Store_scan(status, ptr, data) ==
    IF status = 0 THEN
        LET o == ListFromRaw(ptr, data) IN
        IF o.kind = "OkList"
        THEN [o EXCEPT !.val = [i \in 1..Len(o.val) |-> Utf8Lossy(o.val[i])]]
        ELSE o
    ELSE ErrOther(status)

\* Store::zscan
Store_zscan(status, ptr, data) ==
    IF status = 0 THEN
        LET o == ListFromRaw(ptr, data) IN
        IF o.kind = "OkList"
        THEN [o EXCEPT !.val = [i \in 1..Len(o.val) |-> ScoredEntry(o.val[i])]]
        ELSE o
    ELSE ErrOther(status)

BufferFns == {"secret::get", "secret::get_effective_at", "dictionary::get", "Store::get"}
ListFns == {"Store::zrange_by_score", "Store::scan", "Store::zscan"}
FfiFns == BufferFns \cup ListFns

Wrapper(fn, status, ptr, data) ==
    CASE fn = "secret::get" -> secret_get(status, ptr, data)
      [] fn = "secret::get_effective_at" -> secret_get_effective_at(status, ptr, data)
      [] fn = "dictionary::get" -> dictionary_get(status, ptr, data)
      [] fn = "Store::get" -> Store_get(status, ptr, data)
      [] fn = "Store::zrange_by_score" -> Store_zrange_by_score(status, ptr, data)
      [] fn = "Store::scan" -> Store_scan(status, ptr, data)
      [] fn = "Store::zscan" -> Store_zscan(status, ptr, data)

\* Sample bytes of host buffers: 'A', the two bytes of U+00E9, a byte that
\* is never valid UTF-8.
HostBytes == {65, 195, 169, 255}

\* Items of the wire lists the host returns from the list calls: an empty
\* item, one byte, eight bytes (too short to hold a value and a score), and
\* nine bytes (the value "A" with the score 1.0).
HostItems == { << >>, << 255 >>, << 1, 2, 3, 4, 5, 6, 7, 8 >>,
               << 65, 0, 0, 0, 0, 0, 0, 240, 63 >> }

\* What the host can hand back: any short buffer, and for the list calls a
\* well-formed wire list as well.
HostBuffers(fn) ==
    BSeq(HostBytes, MaxBufLen)
        \cup (IF fn \in ListFns THEN {serialize_list(xs) : xs \in BSeq(HostItems, MaxHostItems)}
              ELSE {})

NoOutcome == Outcome("none", << >>, 0, 0, FALSE)

\* The wrapper calls the host function, which returns a status and writes,
\* or leaves null, the out-parameters.  The host is opaque: every status
\* with every out-parameter state is possible.
FfiCallHost ==
    /\ ffiPc = "idle"
    /\ \E fn \in FfiFns, status \in 0..MaxStatus :
          /\ ffiFn' = fn
          /\ ffiStatus' = status
          /\ \/ /\ ffiPtr' = "null"
                /\ ffiData' = << >>
             \/ /\ ffiPtr' = "buf"
                /\ \E d \in HostBuffers(fn) : ffiData' = d
    /\ ffiPc' = "hostReturned"
    /\ UNCHANGED <<ffiAdopted, ffiFreed, ffiResult, ffiHandle>>
    /\ UNCHANGED <<wireVars, brVars, entryVars, clientVars, bodyVars, rdVars>>

\* Handles the host can write into return_handle; 0 is also what the
\* out-parameter holds when the host leaves it alone
SampleHandles == {0, 1, 7}

\* Store::open calls proxy_kv_store_open, which returns a status and writes,
\* or leaves at 0, the handle.
FfiOpenCallHost ==
    /\ ffiPc = "idle"
    /\ ffiFn' = "Store::open"
    /\ \E status \in 0..MaxStatus : ffiStatus' = status
    /\ \E h \in SampleHandles : ffiHandle' = h
    /\ ffiPc' = "hostReturned"
    /\ UNCHANGED <<ffiPtr, ffiData, ffiAdopted, ffiFreed, ffiResult>>
    /\ UNCHANGED <<wireVars, brVars, entryVars, clientVars, bodyVars, rdVars>>

\* Store::open matches on the status and returns.
FfiOpenMatch ==
    /\ ffiPc = "hostReturned"
    /\ ffiFn = "Store::open"
    /\ ffiResult' = Store_open(ffiStatus, ffiHandle)
    /\ ffiPc' = "returned"
    /\ UNCHANGED <<ffiFn, ffiStatus, ffiPtr, ffiData, ffiAdopted, ffiFreed, ffiHandle>>
    /\ UNCHANGED <<wireVars, brVars, entryVars, clientVars, bodyVars, rdVars>>

\* The calls without a buffer out-parameter
ScalarFns == {"Store::bf_exists", "utils::set_user_diag"}

\* Store::bf_exists calls proxy_kv_store_bf_exists, which returns a status
\* and writes, or leaves at 0, return_handle; utils::set_user_diag calls
\* stats_set_user_diag, which returns a status only.
FfiScalarCallHost ==
    /\ ffiPc = "idle"
    /\ \E fn \in ScalarFns, status \in 0..MaxStatus, h \in SampleHandles :
          /\ ffiFn' = fn
          /\ ffiStatus' = status
          /\ ffiHandle' = IF fn = "Store::bf_exists" THEN h ELSE 0
    /\ ffiPc' = "hostReturned"
    /\ UNCHANGED <<ffiPtr, ffiData, ffiAdopted, ffiFreed, ffiResult>>
    /\ UNCHANGED <<wireVars, brVars, entryVars, clientVars, bodyVars, rdVars>>

\* Store::bf_exists and utils::set_user_diag inspect the status and return
\* (or panic).
FfiScalarMatch ==
    /\ ffiPc = "hostReturned"
    /\ ffiFn \in ScalarFns
    /\ ffiResult' = IF ffiFn = "Store::bf_exists" THEN Store_bf_exists(ffiStatus, ffiHandle)
                    ELSE set_user_diag(ffiStatus)
    /\ ffiPc' = "returned"
    /\ UNCHANGED <<ffiFn, ffiStatus, ffiPtr, ffiData, ffiAdopted, ffiFreed, ffiHandle>>
    /\ UNCHANGED <<wireVars, brVars, entryVars, clientVars, bodyVars, rdVars>>

\* The wrapper matches on the status and returns (or panics).
FfiMatch ==
    /\ ffiPc = "hostReturned"
    /\ ffiFn \in FfiFns
    /\ LET o == Wrapper(ffiFn, ffiStatus, ffiPtr, ffiData) IN
          /\ ffiResult' = o
          /\ ffiAdopted' = ffiAdopted + o.adopts
          /\ ffiFreed' = ffiFreed + o.drops
    /\ ffiPc' = "returned"
    /\ UNCHANGED <<ffiFn, ffiStatus, ffiPtr, ffiData, ffiHandle>>
    /\ UNCHANGED <<wireVars, brVars, entryVars, clientVars, bodyVars, rdVars>>

\* The caller drops the returned value; an owned buffer is freed with it.
FfiDrop ==
    /\ ffiPc = "returned"
    /\ ffiFreed' = ffiFreed + (IF ffiResult.owns THEN 1 ELSE 0)
    /\ ffiPc' = "dropped"
    /\ UNCHANGED <<ffiFn, ffiStatus, ffiPtr, ffiData, ffiAdopted, ffiResult, ffiHandle>>
    /\ UNCHANGED <<wireVars, brVars, entryVars, clientVars, bodyVars, rdVars>>

\* The next call starts with fresh out-parameters (null_mut(), 0).
FfiReset ==
    /\ ffiPc = "dropped"
    /\ ffiPc' = "idle"
    /\ ffiFn' = "none"
    /\ ffiStatus' = 0
    /\ ffiPtr' = "null"
    /\ ffiData' = << >>
    /\ ffiAdopted' = 0
    /\ ffiFreed' = 0
    /\ ffiResult' = NoOutcome
    /\ ffiHandle' = 0
    /\ UNCHANGED <<wireVars, brVars, entryVars, clientVars, bodyVars, rdVars>>

FfiInit ==
    /\ ffiPc = "idle"
    /\ ffiFn = "none"
    /\ ffiStatus = 0
    /\ ffiPtr = "null"
    /\ ffiData = << >>
    /\ ffiAdopted = 0
    /\ ffiFreed = 0
    /\ ffiResult = NoOutcome
    /\ ffiHandle = 0

(***************************************************************************)
(* HTTP type bridge: src/src/lib.rs, src/src/http_client.rs and the older  *)
(* src/fastedge-rust-sdk, src/rust.  Strings are their UTF-8 bytes.        *)
(***************************************************************************)
None == [some |-> FALSE, val |-> << >>]
Some(x) == [some |-> TRUE, val |-> x]

Ok(x) == [kind |-> "Ok", val |-> x]
Err(e) == [kind |-> "Err", val |-> e]
Panic == [kind |-> "Panic", val |-> "called Result::unwrap() on an Err value"]
NotRun == [kind |-> "NotRun", val |-> << >>]

\* ---- methods ----
ErgMethods == {"GET", "POST", "PUT", "DELETE", "HEAD", "PATCH", "OPTIONS",
               "CONNECT", "TRACE", "PURGE"}
SevenMethods == {"GET", "POST", "PUT", "DELETE", "HEAD", "PATCH", "OPTIONS"}

UnsupportedMethod(m) == Err([error |-> "UnsupportedMethod", method |-> m])

\* to_http_client_method of src/src/http_client.rs
to_http_client_method(method) ==
    CASE method = "GET" -> Ok("Get")
      [] method = "POST" -> Ok("Post")
      [] method = "PUT" -> Ok("Put")
      [] method = "DELETE" -> Ok("Delete")
      [] method = "HEAD" -> Ok("Head")
      [] method = "PATCH" -> Ok("Patch")
      [] method = "OPTIONS" -> Ok("Options")
      [] OTHER -> UnsupportedMethod(method)

\* to_http_client_method of src/fastedge-rust-sdk/src/http_client.rs
sdk_to_http_client_method(method) ==
    CASE method = "GET" -> Ok("Get")
      [] method = "POST" -> Ok("Post")
      [] method = "PUT" -> Ok("Put")
      [] method = "DELETE" -> Ok("Delete")
      [] method = "HEAD" -> Ok("Head")
      [] method = "PATCH" -> Ok("Patch")
      [] OTHER -> UnsupportedMethod(method)

\* to_http_client_method of src/rust/src/backend.rs
backend_to_http_client_method(method) ==
    CASE method = "GET" -> Ok("METHOD_GET")
      [] method = "POST" -> Ok("METHOD_POST")
      [] method = "PUT" -> Ok("METHOD_PUT")
      [] method = "DELETE" -> Ok("METHOD_DELETE")
      [] method = "HEAD" -> Ok("METHOD_HEAD")
      [] method = "PATCH" -> Ok("METHOD_PATCH")
      [] OTHER -> UnsupportedMethod(method)

\* impl From<Method> for ::http::Method (src/src/lib.rs and
\* src/fastedge-rust-sdk/src/lib.rs are the same match)
MethodFromHost(method) ==
    CASE method = "Get" -> "GET"
      [] method = "Post" -> "POST"
      [] method = "Put" -> "PUT"
      [] method = "Delete" -> "DELETE"
      [] method = "Head" -> "HEAD"
      [] method = "Patch" -> "PATCH"
      [] method = "Options" -> "OPTIONS"

\* the transports that have a conversion in both directions
PairTransports == {"fastedge", "fastedge-rust-sdk"}
Transports == PairTransports \cup {"rust"}

MethodToHost(transport, method) ==
    CASE transport = "fastedge" -> to_http_client_method(method)
      [] transport = "fastedge-rust-sdk" -> sdk_to_http_client_method(method)
      [] transport = "rust" -> backend_to_http_client_method(method)

\* ---- status codes ----
\* http::StatusCode::try_from(u16) accepts exactly 100..=999
StatusCodeTryFrom(status) == status >= 100 /\ status < 1000

\* ---- header names and values ----
IsTokenByte(b) ==
    \/ b \in 48..57
    \/ b \in 65..90
    \/ b \in 97..122
    \/ b \in {33, 35, 36, 37, 38, 39, 42, 43, 45, 46, 94, 95, 96, 124, 126}

LowerByte(b) == IF b \in 65..90 THEN b + 32 ELSE b
AsciiLower(s) == [i \in 1..Len(s) |-> LowerByte(s[i])]

\* HeaderName::try_from(&String): a non-empty token, stored in lower case
HeaderNameValid(s) == Len(s) > 0 /\ \A i \in 1..Len(s) : IsTokenByte(s[i])
HeaderNameLower(s) == [i \in 1..Len(s) |-> LowerByte(s[i])]

\* HeaderValue::try_from(&String): no control bytes but tab, no DEL
HeaderValueValid(s) == \A i \in 1..Len(s) : (s[i] >= 32 /\ s[i] # 127) \/ s[i] = 9

\* HeaderValue::to_str: visible ASCII (and tab) only
HeaderValueToStrOk(s) == \A i \in 1..Len(s) : (s[i] >= 32 /\ s[i] < 127) \/ s[i] = 9

Pair(k, v) == [name |-> k, value |-> v]

\* HeaderMap::append seen through HeaderMap::iter: a header map iterates
\* name by name in the order the names were first added, and under one name
\* value by value in the order the values were added
HeaderMapAppendAtEnd(m, k, v) == Append(m, Pair(k, v))
HeaderMapAppend(m, k, v) ==
    LET same == {i \in 1..Len(m) : m[i].name = k} IN
    IF same = {} THEN Append(m, Pair(k, v))
    ELSE LET j == CHOOSE i \in same : \A i2 \in same : i2 <= i IN
         SubSeq(m, 1, j) \o << Pair(k, v) >> \o SubSeq(m, j + 1, Len(m))

\* Builder::header(k, v) leaving out a header that does not convert
BuilderHeaderSkip(builder, k, v) ==
    IF builder.err \/ ~HeaderNameValid(k) \/ ~HeaderValueValid(v) THEN builder
    ELSE [builder EXCEPT !.headers = HeaderMapAppend(@, HeaderNameLower(k), v)]

\* Builder::header(k, v): a builder that already failed stays failed
BuilderHeader(builder, k, v) ==
    IF builder.err THEN builder
    ELSE IF ~HeaderNameValid(k) \/ ~HeaderValueValid(v) THEN [builder EXCEPT !.err = TRUE]
    ELSE [builder EXCEPT !.headers = HeaderMapAppend(@, HeaderNameLower(k), v)]

RECURSIVE FoldHeaders(_, _)
\* headers.iter().fold(builder, |builder, (k, v)| builder.header(k, v))
FoldHeaders(builder, headers) ==
    IF headers = << >> THEN builder
    ELSE FoldHeaders(BuilderHeader(builder, Head(headers).name, Head(headers).value),
                     Tail(headers))

\* ---- bodies ----
TextPlain == "text/plain; charset=utf-8"
OctetStream == "application/octet-stream"
AppJson == "application/json"

Body(ct, bytes) == [content_type |-> ct, inner |-> bytes]
\* Body::empty / Body::default
BodyEmpty == Body(TextPlain, << >>)
\* impl From<Vec<u8>> for Body, losing the bytes
BodyFromVecDropped(bytes) == Body(OctetStream, << >>)
\* impl From<Vec<u8>> for Body
BodyFromVec(bytes) == Body(OctetStream, bytes)

\* ---- responses ----
HostResponse(status, headers, body) == [status |-> status, headers |-> headers, body |-> body]
ErgResponse(status, headers, body) == [status |-> status, headers |-> headers, body |-> body]

InvalidStatusCode(status) == Err([error |-> "InvalidStatusCode", status |-> status])
InvalidBody == Err([error |-> "InvalidBody"])

\* impl TryFrom<Response> for ::http::Response<body::Body>
ResponseFromHost(res) ==
    IF ~StatusCodeTryFrom(res.status) THEN InvalidStatusCode(res.status)
    ELSE LET b0 == [err |-> FALSE, headers |-> << >>]
             builder == IF res.headers.some THEN FoldHeaders(b0, res.headers.val) ELSE b0
             body == IF res.body.some THEN BodyFromVec(res.body.val) ELSE BodyEmpty
         IN  IF builder.err THEN InvalidBody
             ELSE Ok(ErgResponse(res.status, builder.headers, body))

\* translate_http_client_to_response: Builder::status(u16) keeps a status
\* that is no StatusCode as the builder's error, which Builder::body reports
translate_http_client_to_response(res) ==
    LET b0 == [err |-> ~StatusCodeTryFrom(res.status), headers |-> << >>]
        builder == IF res.headers.some THEN FoldHeaders(b0, res.headers.val) ELSE b0
        body == IF res.body.some THEN BodyFromVec(res.body.val) ELSE BodyEmpty
    IN  IF builder.err THEN InvalidBody
        ELSE Ok(ErgResponse(res.status, builder.headers, body))

\* res.headers().iter().map(..).collect(), one pair per entry in iteration
\* order, written in reverse
CollectHeadersReversed(headers) ==
    [i \in 1..Len(headers) |-> headers[Len(headers) + 1 - i]]
\* res.headers().iter().map(..).collect(): one pair per entry in iteration order
CollectHeaders(headers) == [i \in 1..Len(headers) |-> headers[i]]

\* the headers field with Some(vec![]) for no headers
HostHeadersOfKeepEmpty(headers) == Some(CollectHeaders(headers))
\* the headers field: if !res.headers().is_empty() { Some(..) } else { None }
HostHeadersOf(headers) ==
    IF Len(headers) # 0 THEN Some(CollectHeaders(headers)) ELSE None

\* impl From<::http::Response<body::Body>> for Response; value.to_str().unwrap()
\* panics on a value that is not visible ASCII
ResponseToHost(res) ==
    IF \E i \in 1..Len(res.headers) : ~HeaderValueToStrOk(res.headers[i].value) THEN Panic
    ELSE Ok(HostResponse(res.status, HostHeadersOf(res.headers), Some(res.body.inner)))

\* ---- sample inputs ----
\* u16 status values around the edges of 100..599 and 100..999
SampleStatuses == {0, 99, 100, 200, 599, 600, 999, 1000, 65535}
\* the values an http::StatusCode can hold, sampled
SampleStatusCodes == {s \in SampleStatuses : StatusCodeTryFrom(s)}

\* header pairs the host can send: "a: 1", "A: 2", "b: 1", "b: e-acute",
\* " : 1" (a name that is no token), "a: \n" (a value with a control byte)
HostPairs == { Pair(<<97>>, <<49>>), Pair(<<65>>, <<50>>), Pair(<<98>>, <<49>>),
               Pair(<<98>>, <<195, 169>>), Pair(<<32>>, <<49>>), Pair(<<97>>, <<10>>) }
HostHeaderLists == BSeq(HostPairs, MaxHeaders)

HostBodies == {None, Some(<< >>), Some(<< 0, 255 >>)}

HostResponses ==
    { HostResponse(s, h, b) : s \in SampleStatuses,
                              h \in {None} \cup {Some(l) : l \in HostHeaderLists},
                              b \in HostBodies }

\* the header maps a guest can hold: whatever appends of valid pairs build
ErgPairs == {p \in HostPairs : HeaderNameValid(p.name) /\ HeaderValueValid(p.value)}
ErgHeaderMaps ==
    { FoldHeaders([err |-> FALSE, headers |-> << >>], l).headers : l \in BSeq(ErgPairs, MaxHeaders) }

ErgBodies == { Body(ct, b) : ct \in {TextPlain, OctetStream, AppJson}, b \in {<< >>, << 0, 255 >>} }

ErgResponses ==
    { ErgResponse(s, h, b) : s \in SampleStatusCodes, h \in ErgHeaderMaps, b \in ErgBodies }

\* ---- callers ----
\* A method is converted to the host's tag and, in a transport that has the
\* reverse conversion, back.
ConvertMethod ==
    /\ brPc = "idle"
    /\ \E t \in Transports, m \in ErgMethods :
          /\ brIn' = [transport |-> t, method |-> m]
          /\ brMid' = MethodToHost(t, m)
          /\ brOut' = IF MethodToHost(t, m).kind = "Ok" /\ t \in PairTransports
                      THEN Ok(MethodFromHost(MethodToHost(t, m).val))
                      ELSE NotRun
    /\ brOp' = "method"
    /\ brPc' = "done"
    /\ UNCHANGED <<wireVars, ffiVars, entryVars, clientVars, bodyVars, rdVars>>

\* A host response is converted to the ergonomic response and, when that
\* succeeded, back to the host record.
DecodeThenEncode ==
    /\ brPc = "idle"
    /\ \E res \in HostResponses :
          /\ brIn' = res
          /\ brMid' = ResponseFromHost(res)
          /\ brOut' = IF ResponseFromHost(res).kind = "Ok"
                      THEN ResponseToHost(ResponseFromHost(res).val)
                      ELSE NotRun
    /\ brOp' = "decode-encode"
    /\ brPc' = "done"
    /\ UNCHANGED <<wireVars, ffiVars, entryVars, clientVars, bodyVars, rdVars>>

\* An ergonomic response is converted to the host record and, unless that
\* panicked, back to the ergonomic response.
EncodeThenDecode ==
    /\ brPc = "idle"
    /\ \E res \in ErgResponses :
          /\ brIn' = res
          /\ brMid' = ResponseToHost(res)
          /\ brOut' = IF ResponseToHost(res).kind = "Ok"
                      THEN ResponseFromHost(ResponseToHost(res).val)
                      ELSE NotRun
    /\ brOp' = "encode-decode"
    /\ brPc' = "done"
    /\ UNCHANGED <<wireVars, ffiVars, entryVars, clientVars, bodyVars, rdVars>>

BridgeReset ==
    /\ brPc = "done"
    /\ brPc' = "idle"
    /\ brOp' = "none"
    /\ brIn' = << >>
    /\ brMid' = NotRun
    /\ brOut' = NotRun
    /\ UNCHANGED <<wireVars, ffiVars, entryVars, clientVars, bodyVars, rdVars>>

BridgeInit ==
    /\ brPc = "idle"
    /\ brOp = "none"
    /\ brIn = << >>
    /\ brMid = NotRun
    /\ brOut = NotRun

(***************************************************************************)
(* Requests and the generated entry point: src/src/lib.rs (TryFrom<Request>)*)
(* and the code the #[fastedge::http] macro of src/derive/src/lib.rs emits. *)
(***************************************************************************)
HostRequest(method, uri, headers, body) ==
    [method |-> method, uri |-> uri, headers |-> headers, body |-> body]
ErgRequest(method, uri, headers, body) ==
    [method |-> method, uri |-> uri, headers |-> headers, body |-> body]

\* Uri::try_from(String), for strings over '/', 'a' and ' ': the empty
\* string and a space are rejected, a string starting with '/' is a path,
\* any other string must be an authority and so hold no '/'
UriValid(uri) ==
    /\ Len(uri) > 0
    /\ \A i \in 1..Len(uri) : uri[i] # 32
    /\ uri[1] = 47 \/ \A i \in 1..Len(uri) : uri[i] # 47

\* impl TryFrom<Request> for ::http::Request<body::Body>
RequestFromHost(r) ==
    LET b0 == [err |-> ~UriValid(r.uri), headers |-> << >>]
        builder == FoldHeaders(b0, r.headers)
        body == IF r.body.some THEN BodyFromVec(r.body.val) ELSE BodyEmpty
    IN  IF builder.err THEN InvalidBody
        ELSE Ok(ErgRequest(MethodFromHost(r.method), r.uri, builder.headers, body))

\* StatusCode::INTERNAL_SERVER_ERROR.as_u16()
INTERNAL_SERVER_ERROR == 500

\* internal_error with another status
internal_error_ok(body) == HostResponse(200, Some(<< >>), Some(body))
\* internal_error (generated): body.as_bytes().to_vec() copies the text
internal_error(body) == HostResponse(INTERNAL_SERVER_ERROR, Some(<< >>), Some(body))

\* "http request decode error"
DecodeErrorText == << 104, 116, 116, 112, 32, 114, 101, 113, 117, 101, 115, 116, 32, 100, 101, 99, 111, 100, 101, 32, 101, 114, 114, 111, 114 >>
\* "http response encode error"
EncodeErrorText == << 104, 116, 116, 112, 32, 114, 101, 115, 112, 111, 110, 115, 101, 32, 101, 110, 99, 111, 100, 101, 32, 101, 114, 114, 111, 114 >>

\* `let Ok(request) = req.try_into() else { return internal_error(..) }`,
\* calling the handler whatever the conversion said
DecodeStepAlways(r) ==
    [pc |-> "decoded",
     request |-> ErgRequest(MethodFromHost(r.method), r.uri, << >>, BodyEmpty),
     response |-> << >>]
\* `let Ok(request) = req.try_into() else { return internal_error(..) }`
DecodeStep(r) ==
    IF RequestFromHost(r).kind = "Ok"
    THEN [pc |-> "decoded", request |-> RequestFromHost(r).val, response |-> << >>]
    ELSE [pc |-> "returned", request |-> << >>, response |-> internal_error(DecodeErrorText)]

\* `match handler(request) { Ok(res) => res, Err(error) => return
\* internal_error(error.to_string().as_str()) }`; an error is kept as the
\* bytes of its display string
HandlerStep(result) ==
    IF result.kind = "Ok"
    THEN [pc |-> "handled", response |-> << >>]
    ELSE [pc |-> "returned", response |-> internal_error(result.val)]

\* the encode step with a fallible conversion that reports a header value
\* outside visible ASCII as an error: the else branch is taken
EncodeStepFallible(res) ==
    LET r == ResponseToHost(res) IN
    IF r.kind = "Ok" THEN [pc |-> "returned", response |-> r.val]
    ELSE [pc |-> "returned", response |-> internal_error(EncodeErrorText)]

\* `let Ok(response) = Response::try_from(res) else { return
\* internal_error(..) }; response`: try_from is From, which cannot fail
\* but can panic
EncodeStep(res) ==
    LET r == ResponseToHost(res) IN
    IF r.kind = "Panic" THEN [pc |-> "panicked", response |-> << >>]
    ELSE IF r.kind = "Ok" THEN [pc |-> "returned", response |-> r.val]
    ELSE [pc |-> "returned", response |-> internal_error(EncodeErrorText)]

\* ---- sample inputs ----
HostMethods == {"Get", "Post", "Put", "Delete", "Head", "Patch", "Options"}
SampleHostMethods == {"Get", "Options"}
UriBytes == {47, 97, 32}

HostRequests ==
    { HostRequest(m, u, h, b) : m \in SampleHostMethods, u \in BSeq(UriBytes, MaxUriLen),
                                h \in BSeq(HostPairs, MaxReqHeaders),
                                b \in {None, Some(<< 0, 255 >>)} }

\* display strings of handler errors: empty, "e", e-acute, and the texts of
\* the decode and encode errors themselves
HandlerErrors == { << >>, << 101 >>, << 195, 169 >>, DecodeErrorText, EncodeErrorText }

\* what a user handler can return: any response it can build, or an error
HandlerResponses ==
    { ErgResponse(s, FoldHeaders([err |-> FALSE, headers |-> << >>], l).headers, b) :
        s \in {200, 500}, l \in BSeq(ErgPairs, MaxResHeaders),
        b \in {BodyEmpty, Body(TextPlain, << 101 >>), Body(TextPlain, EncodeErrorText)} }

HandlerResults == {Ok(r) : r \in HandlerResponses} \cup {Err(e) : e \in HandlerErrors}

\* ---- single conversions ----
\* A host request is converted to the ergonomic request.
DecodeRequest ==
    /\ brPc = "idle"
    /\ \E r \in HostRequests :
          /\ brIn' = r
          /\ brMid' = RequestFromHost(r)
    /\ brOut' = NotRun
    /\ brOp' = "request"
    /\ brPc' = "done"
    /\ UNCHANGED <<wireVars, ffiVars, entryVars, clientVars, bodyVars, rdVars>>

\* A response of the host's outbound call is converted to the ergonomic
\* response.
TranslateResponse ==
    /\ brPc = "idle"
    /\ \E res \in HostResponses :
          /\ brIn' = res
          /\ brMid' = translate_http_client_to_response(res)
    /\ brOut' = NotRun
    /\ brOp' = "translate"
    /\ brPc' = "done"
    /\ UNCHANGED <<wireVars, ffiVars, entryVars, clientVars, bodyVars, rdVars>>

\* ---- the steps of process ----
\* The host invokes process with a request.
EntryInvoke ==
    /\ pc = "idle"
    /\ \E r \in HostRequests : req' = r
    /\ pc' = "invoked"
    /\ UNCHANGED <<request, handlerCalls, handlerResult, response>>
    /\ UNCHANGED <<wireVars, ffiVars, brVars, clientVars, bodyVars, rdVars>>

\* process converts the request, and returns at once when that fails.
EntryDecode ==
    /\ pc = "invoked"
    /\ pc' = DecodeStep(req).pc
    /\ request' = DecodeStep(req).request
    /\ response' = DecodeStep(req).response
    /\ UNCHANGED <<req, handlerCalls, handlerResult>>
    /\ UNCHANGED <<wireVars, ffiVars, brVars, clientVars, bodyVars, rdVars>>

\* process calls the user handler, which returns a response or an error.
EntryHandler ==
    /\ pc = "decoded"
    /\ handlerCalls' = handlerCalls + 1
    /\ \E result \in HandlerResults :
          /\ handlerResult' = result
          /\ pc' = HandlerStep(result).pc
          /\ response' = HandlerStep(result).response
    /\ UNCHANGED <<req, request>>
    /\ UNCHANGED <<wireVars, ffiVars, brVars, clientVars, bodyVars, rdVars>>

\* process converts the handler's response and returns it.
EntryEncode ==
    /\ pc = "handled"
    /\ pc' = EncodeStep(handlerResult.val).pc
    /\ response' = EncodeStep(handlerResult.val).response
    /\ UNCHANGED <<req, request, handlerCalls, handlerResult>>
    /\ UNCHANGED <<wireVars, ffiVars, brVars, clientVars, bodyVars, rdVars>>

\* The invocation is over; the host's next request starts a new one.
EntryReset ==
    /\ pc \in {"returned", "panicked"}
    /\ pc' = "idle"
    /\ req' = << >>
    /\ request' = << >>
    /\ handlerCalls' = 0
    /\ handlerResult' = NotRun
    /\ response' = << >>
    /\ UNCHANGED <<wireVars, ffiVars, brVars, clientVars, bodyVars, rdVars>>

EntryInit ==
    /\ pc = "idle"
    /\ req = << >>
    /\ request = << >>
    /\ handlerCalls = 0
    /\ handlerResult = NotRun
    /\ response = << >>

(***************************************************************************)
(* The outbound client: send_request of src/src/http_client.rs.            *)
(***************************************************************************)

\* impl TryFrom<(&Parts, &Body)> for http_client::Request: the method is
\* converted first; value.to_str().map(..).unwrap() panics on a header value
\* that is not visible ASCII
RequestToHost(r) ==
    IF to_http_client_method(r.method).kind = "Err" THEN to_http_client_method(r.method)
    ELSE IF \E i \in 1..Len(r.headers) : ~HeaderValueToStrOk(r.headers[i].value) THEN Panic
    ELSE Ok(HostRequest(to_http_client_method(r.method).val, r.uri,
                        CollectHeaders(r.headers), Some(r.body.inner)))

\* Error::BindgenHttpError(e)
BindgenHttpError(e) == Err([error |-> "BindgenHttpError", inner |-> e])

\* `let request = (&parts, &body).try_into()?`, going on to the host call
\* whatever the conversion said
SendConvertAlways(r) ==
    [pc |-> "converted", hostReq |-> RequestToHost(r), result |-> NotRun]
\* `let request = (&parts, &body).try_into()?`
SendConvert(r) ==
    LET c == RequestToHost(r) IN
    IF c.kind = "Ok" THEN [pc |-> "converted", hostReq |-> c, result |-> NotRun]
    ELSE IF c.kind = "Panic" THEN [pc |-> "panicked", hostReq |-> c, result |-> NotRun]
    ELSE [pc |-> "done", hostReq |-> c, result |-> c]

\* `.map_err(Error::BindgenHttpError)?` reporting the host's error as
\* InvalidBody
SendHostStepInvalidBody(hostResult) ==
    IF hostResult.kind = "Err" THEN [pc |-> "done", result |-> InvalidBody]
    ELSE [pc |-> "received", result |-> NotRun]
\* `http_client::send_request(&request).map_err(Error::BindgenHttpError)?`
SendHostStep(hostResult) ==
    IF hostResult.kind = "Err" THEN [pc |-> "done", result |-> BindgenHttpError(hostResult.val)]
    ELSE [pc |-> "received", result |-> NotRun]

\* ---- sample inputs ----
\* methods a caller can set: two of the seven, and one outside them
SampleErgMethods == {"GET", "OPTIONS", "TRACE"}

ErgRequests ==
    { ErgRequest(m, << 47 >>, FoldHeaders([err |-> FALSE, headers |-> << >>], l).headers, b) :
        m \in SampleErgMethods, l \in BSeq(ErgPairs, MaxReqHeaders),
        b \in {BodyEmpty, Body(OctetStream, << 0, 255 >>)} }

\* the host's own errors, opaque to the SDK
HostErrors == {"e1", "e2"}

\* statuses the host can answer with: the edges of the valid ranges and a
\* redirect
ClientStatuses == SampleStatuses \cup {301}

\* what the host's primitive can return: any response record, or its error
ClientHostResults ==
    { Ok(HostResponse(s, h, b)) : s \in ClientStatuses,
                                  h \in {None} \cup {Some(l) : l \in BSeq(HostPairs, MaxResHeaders)},
                                  b \in HostBodies }
        \cup { Err(e) : e \in HostErrors }

\* ---- the steps of send_request ----
\* A caller invokes send_request with a request.
ClientCall ==
    /\ clPc = "idle"
    /\ \E r \in ErgRequests : clReq' = r
    /\ clPc' = "called"
    /\ UNCHANGED <<clHostReq, clHostCalls, clHostResult, clTranslated, clResult>>
    /\ UNCHANGED <<wireVars, ffiVars, brVars, entryVars, bodyVars, rdVars>>

\* send_request converts the request, and returns at once when that fails.
ClientConvert ==
    /\ clPc = "called"
    /\ clPc' = SendConvert(clReq).pc
    /\ clHostReq' = SendConvert(clReq).hostReq
    /\ clResult' = SendConvert(clReq).result
    /\ UNCHANGED <<clReq, clHostCalls, clHostResult, clTranslated>>
    /\ UNCHANGED <<wireVars, ffiVars, brVars, entryVars, bodyVars, rdVars>>

\* send_request invokes the host's primitive, which returns a response or
\* its own error; the error is returned at once.
ClientHostCall ==
    /\ clPc = "converted"
    /\ clHostCalls' = clHostCalls + 1
    /\ \E hr \in ClientHostResults :
          /\ clHostResult' = hr
          /\ clPc' = SendHostStep(hr).pc
          /\ clResult' = SendHostStep(hr).result
    /\ UNCHANGED <<clReq, clHostReq, clTranslated>>
    /\ UNCHANGED <<wireVars, ffiVars, brVars, entryVars, bodyVars, rdVars>>

\* send_request converts the host's response and returns the result.
ClientTranslate ==
    /\ clPc = "received"
    /\ clTranslated' = clTranslated + 1
    /\ clResult' = translate_http_client_to_response(clHostResult.val)
    /\ clPc' = "done"
    /\ UNCHANGED <<clReq, clHostReq, clHostCalls, clHostResult>>
    /\ UNCHANGED <<wireVars, ffiVars, brVars, entryVars, bodyVars, rdVars>>

\* The call is over; the next call starts afresh.
ClientReset ==
    /\ clPc \in {"done", "panicked"}
    /\ clPc' = "idle"
    /\ clReq' = << >>
    /\ clHostReq' = NotRun
    /\ clHostCalls' = 0
    /\ clHostResult' = NotRun
    /\ clTranslated' = 0
    /\ clResult' = NotRun
    /\ UNCHANGED <<wireVars, ffiVars, brVars, entryVars, bodyVars, rdVars>>

ClientInit ==
    /\ clPc = "idle"
    /\ clReq = << >>
    /\ clHostReq = NotRun
    /\ clHostCalls = 0
    /\ clHostResult = NotRun
    /\ clTranslated = 0
    /\ clResult = NotRun

(***************************************************************************)
(* body::Body of src/src/lib.rs: its constructors and the operations on an *)
(* existing Body.                                                          *)
(***************************************************************************)
\* impl From<String> for Body
BodyFromString(value) == Body(TextPlain, value)
\* impl From<&'static str> for Body
BodyFromStr(value) == Body(TextPlain, value)
\* impl From<&'static [u8]> for Body with the label taken from the content:
\* text/plain when the bytes are UTF-8
BodyFromSliceSniffed(value) ==
    Body(IF Utf8Valid(value) THEN TextPlain ELSE OctetStream, value)
\* impl From<&'static [u8]> for Body
BodyFromSlice(value) == Body(OctetStream, value)

\* serde_json values: null, a boolean, a number, a string without a
\* character that needs an escape, and the empty array
JsonNull == [kind |-> "Null", val |-> << >>]
JsonBool(b) == [kind |-> "Bool", val |-> b]
JsonNumber(digits) == [kind |-> "Number", val |-> digits]
JsonString(str) == [kind |-> "String", val |-> str]
JsonArray(items) == [kind |-> "Array", val |-> items]

\* serde_json::to_vec(&value): the compact text of the value
JsonToVec(value) ==
    CASE value.kind = "Null" -> << 110, 117, 108, 108 >>
      [] value.kind = "Bool" -> IF value.val THEN << 116, 114, 117, 101 >>
                                ELSE << 102, 97, 108, 115, 101 >>
      [] value.kind = "Number" -> value.val
      [] value.kind = "String" -> << 34 >> \o value.val \o << 34 >>
      [] value.kind = "Array" -> << 91, 93 >>

\* impl TryFrom<serde_json::Value> for Body
BodyTryFromJson(value) == Ok(Body(AppJson, JsonToVec(value)))

\* Body::content_type: a copy of the label
Body_content_type(b) == b.content_type
\* impl Deref for Body: the bytes, behind a shared reference
Body_deref(b) == b.inner

\* ---- sample inputs ----
\* text a String or &str can hold: 'A', '{', and the two bytes of U+00E9
TextInputs == {t \in BSeq({65, 123, 195, 169}, MaxBodyLen) : Utf8Valid(t)}
\* bytes a Vec<u8> or &[u8] can hold, text included
ByteInputs == BSeq({0, 65, 123, 255}, MaxBodyLen)
JsonInputs == { JsonNull, JsonBool(TRUE), JsonBool(FALSE), JsonNumber(<< 48 >>),
                JsonString(<< >>), JsonString(<< 65 >>), JsonArray(<< >>) }

BodyCtors == {"String", "&str", "Vec<u8>", "&[u8]", "serde_json::Value",
              "Body::empty", "Body::default"}

\* the inputs a constructor takes
CtorInputs(ctor) ==
    CASE ctor \in {"String", "&str"} -> TextInputs
      [] ctor \in {"Vec<u8>", "&[u8]"} -> ByteInputs
      [] ctor = "serde_json::Value" -> JsonInputs
      [] OTHER -> {<< >>}

\* the Body a constructor makes of an input
Construct(ctor, input) ==
    CASE ctor = "String" -> BodyFromString(input)
      [] ctor = "&str" -> BodyFromStr(input)
      [] ctor = "Vec<u8>" -> BodyFromVec(input)
      [] ctor = "&[u8]" -> BodyFromSlice(input)
      [] ctor = "serde_json::Value" -> BodyTryFromJson(input).val
      [] ctor = "Body::empty" -> BodyEmpty
      [] ctor = "Body::default" -> BodyEmpty

NotSeen == [op |-> "none", val |-> << >>]

\* A Body is made with one of the constructors.
BodyConstruct ==
    /\ bodyPc = "none"
    /\ \E ctor \in BodyCtors :
          /\ bodyCtor' = ctor
          /\ \E input \in CtorInputs(ctor) : bodyVal' = Construct(ctor, input)
    /\ bodyPc' = "built"
    /\ UNCHANGED <<bodyReads, bodySeen>>
    /\ UNCHANGED <<wireVars, ffiVars, brVars, entryVars, clientVars, rdVars>>

\* content_type() is called on the Body.
BodyContentType ==
    /\ bodyPc = "built"
    /\ bodyReads < MaxBodyReads
    /\ bodySeen' = [op |-> "content_type", val |-> Body_content_type(bodyVal)]
    /\ bodyReads' = bodyReads + 1
    /\ UNCHANGED <<bodyPc, bodyCtor, bodyVal>>
    /\ UNCHANGED <<wireVars, ffiVars, brVars, entryVars, clientVars, rdVars>>

\* The Body is dereferenced to its bytes.
BodyDeref ==
    /\ bodyPc = "built"
    /\ bodyReads < MaxBodyReads
    /\ bodySeen' = [op |-> "deref", val |-> Body_deref(bodyVal)]
    /\ bodyReads' = bodyReads + 1
    /\ UNCHANGED <<bodyPc, bodyCtor, bodyVal>>
    /\ UNCHANGED <<wireVars, ffiVars, brVars, entryVars, clientVars, rdVars>>

\* The Body is dropped.
BodyDrop ==
    /\ bodyPc = "built"
    /\ bodyPc' = "none"
    /\ bodyCtor' = "none"
    /\ bodyVal' = << >>
    /\ bodyReads' = 0
    /\ bodySeen' = NotSeen
    /\ UNCHANGED <<wireVars, ffiVars, brVars, entryVars, clientVars, rdVars>>

BodyInit ==
    /\ bodyPc = "none"
    /\ bodyCtor = "none"
    /\ bodyVal = << >>
    /\ bodyReads = 0
    /\ bodySeen = NotSeen

(***************************************************************************)
(* The redirect-following helper `request` of the examples:                *)
(* src/examples/api-wrapper/src/lib.rs and                                 *)
(* src/examples/markdown-render/src/lib.rs.                                *)
(***************************************************************************)
\* send_request of src/src/http_client.rs as one call: the conversion, the
\* host call and the conversion back
send_request(r, hostResult) ==
    LET c == SendConvert(r) IN
    IF c.pc = "panicked" THEN Panic
    ELSE IF c.pc = "done" THEN c.result
    ELSE LET h == SendHostStep(hostResult) IN
         IF h.pc = "done" THEN h.result
         ELSE translate_http_client_to_response(hostResult.val)

\* the match on fastedge::Error in `request`
ErrorStatus(error) ==
    CASE error = "UnsupportedMethod" -> 405
      [] error = "BindgenHttpError" -> 500
      [] error = "HttpError" -> 500
      [] error = "InvalidBody" -> 400
      [] error = "InvalidStatusCode" -> 400

REDIRECT_CODES == {301, 302, 303, 307, 308}
is_redirect(status_code) == status_code \in REDIRECT_CODES

\* header::LOCATION and header::HOST, "location" and "host"
LOCATION == << 108, 111, 99, 97, 116, 105, 111, 110 >>
HOST == << 104, 111, 115, 116 >>

\* HeaderMap::get: the first value under the name, if any
HeaderMapGet(m, k) ==
    LET same == {i \in 1..Len(m) : m[i].name = k} IN
    IF same = {} THEN None
    ELSE Some(m[CHOOSE i \in same : \A i2 \in same : i <= i2].value)

\* ---- Url::parse, for strings without white space, user info, port,
\* query or fragment ----
IsAlphaByte(b) == b \in 65..90 \/ b \in 97..122

\* the position of the first byte b of s, 0 when there is none
IndexOf(s, b) ==
    LET at == {i \in 1..Len(s) : s[i] = b} IN
    IF at = {} THEN 0 ELSE CHOOSE i \in at : \A i2 \in at : i <= i2

RECURSIVE StripSlashes(_)
StripSlashes(s) == IF s # << >> /\ Head(s) = 47 THEN StripSlashes(Tail(s)) ELSE s

\* "http" and "https", the special schemes of the sample values
SpecialSchemes == { << 104, 116, 116, 112 >>, << 104, 116, 116, 112, 115 >> }

\* a parsed Url: scheme, host (None for a URL that cannot be a base, or
\* without an authority) and path
UrlOf(scheme, host, path) == [scheme |-> scheme, host |-> host, path |-> path]

\* what follows "scheme:" when an authority starts it: the authority up to
\* the first '/', and the path from there on
AuthorityOf(s) == IF IndexOf(s, 47) = 0 THEN s ELSE SubSeq(s, 1, IndexOf(s, 47) - 1)
PathAfterAuthority(s) == IF IndexOf(s, 47) = 0 THEN << >> ELSE SubSeq(s, IndexOf(s, 47), Len(s))

\* Url::parse: a string without a scheme is relative and fails without a
\* base; a special scheme takes its authority after any number of slashes,
\* fails on an empty host and gets the path "/" when it has none; another
\* scheme has an authority only after "//", and an opaque path otherwise
UrlParse(s) ==
    LET c == IndexOf(s, 58) IN
    IF c <= 1 \/ \E i \in 1..(c - 1) : ~IsAlphaByte(s[i]) THEN Err("RelativeUrlWithoutBase")
    ELSE LET scheme == AsciiLower(SubSeq(s, 1, c - 1))
             rest == SubSeq(s, c + 1, Len(s))
         IN  IF scheme \in SpecialSchemes THEN
                 LET r == StripSlashes(rest) IN
                 IF AuthorityOf(r) = << >> THEN Err("EmptyHost")
                 ELSE Ok(UrlOf(scheme, Some(AsciiLower(AuthorityOf(r))),
                               IF PathAfterAuthority(r) = << >> THEN << 47 >>
                               ELSE PathAfterAuthority(r)))
             ELSE IF Len(rest) >= 2 /\ SubSeq(rest, 1, 2) = << 47, 47 >> THEN
                 LET r == SubSeq(rest, 3, Len(rest)) IN
                 Ok(UrlOf(scheme, IF AuthorityOf(r) = << >> THEN None ELSE Some(AuthorityOf(r)),
                          PathAfterAuthority(r)))
             ELSE Ok(UrlOf(scheme, None, rest))

\* Url::as_str: the serialization of the parsed Url
UrlAsStr(u) ==
    IF u.scheme \in SpecialSchemes \/ u.host.some
    THEN u.scheme \o << 58, 47, 47 >> \o u.host.val \o u.path
    ELSE u.scheme \o << 58 >> \o u.path

\* Builder::uri(loc) on the serialization of a Url: http::Uri takes
\* "scheme://authority/path" with a non-empty authority, and takes a string
\* without "://" as an authority when it holds no '/' and at most one ':'
UrlUriValid(loc) ==
    LET c == IndexOf(loc, 58) IN
    /\ \A i \in 1..Len(loc) : loc[i] > 32 /\ loc[i] < 127
    /\ IF Len(loc) >= c + 2 /\ SubSeq(loc, c + 1, c + 2) = << 47, 47 >>
       THEN AuthorityOf(SubSeq(loc, c + 3, Len(loc))) # << >>
       ELSE /\ IndexOf(loc, 47) = 0
            /\ Cardinality({i \in 1..Len(loc) : loc[i] = 58}) <= 1

\* the sub-request of `request`: Request::builder().method(GET)
\* [.header(HOST, host)].uri(loc).body(Body::empty()); the api-wrapper
\* example sets the Host header, the markdown-render example does not
SubRequest(example, u) ==
    LET b0 == [err |-> ~UrlUriValid(UrlAsStr(u)), headers |-> << >>]
        builder == IF example = "api-wrapper" THEN BuilderHeader(b0, HOST, u.host.val)
                   ELSE b0
    IN  IF builder.err THEN InvalidBody
        ELSE Ok(ErgRequest("GET", UrlAsStr(u), builder.headers, BodyEmpty))

RdReturn(result) == [pc |-> "returned", result |-> result, req |-> << >>]
RdFollow(sub) == [pc |-> "sending", result |-> NotRun, req |-> sub]

\* `request` with the redirect branch left out: every response that is not
\* 200 is an error
RequestStepNoFollow(example, answer) ==
    IF answer.kind = "Panic" THEN [pc |-> "panicked", result |-> NotRun, req |-> << >>]
    ELSE IF answer.kind = "Err" THEN RdReturn(Err(ErrorStatus(answer.val.error)))
    ELSE IF answer.val.status = 200 THEN RdReturn(Ok(answer.val))
    ELSE RdReturn(Err(answer.val.status))

\* the body of `request` after send_request returned `answer`: the error is
\* mapped to a status; a redirect with a Location header is followed by a
\* call of `request` with a GET sub-request, or answered with 500 when the
\* Location cannot be used; any other response is Ok for 200 and
\* Err(status) otherwise
RequestStep(example, answer) ==
    IF answer.kind = "Panic" THEN [pc |-> "panicked", result |-> NotRun, req |-> << >>]
    ELSE IF answer.kind = "Err" THEN RdReturn(Err(ErrorStatus(answer.val.error)))
    ELSE LET rsp == answer.val
             location == HeaderMapGet(rsp.headers, LOCATION)
         IN  IF is_redirect(rsp.status) /\ location.some THEN
                 IF ~HeaderValueToStrOk(location.val) THEN RdReturn(Err(500))
                 ELSE IF UrlParse(location.val).kind # "Ok" THEN RdReturn(Err(500))
                 ELSE IF example = "api-wrapper" /\ ~UrlParse(location.val).val.host.some
                      THEN RdReturn(Err(500))
                 ELSE IF SubRequest(example, UrlParse(location.val).val).kind # "Ok"
                      THEN RdReturn(Err(500))
                 ELSE RdFollow(SubRequest(example, UrlParse(location.val).val).val)
             ELSE IF rsp.status = 200 THEN RdReturn(Ok(rsp))
             ELSE RdReturn(Err(rsp.status))

\* ---- sample inputs ----
RdExamples == {"api-wrapper", "markdown-render"}

\* the first request: a GET or a TRACE to "/", with no header or with one
\* whose value is not visible ASCII
RdRequests ==
    { ErgRequest(m, << 47 >>, h, BodyEmpty) :
        m \in {"GET", "TRACE"},
        h \in {<< >>, << Pair(<< 98 >>, << 195, 169 >>) >>} }

\* Location values: "http://a/", "http://a", "HTTP:a", "/a", "", "http://",
\* "mailto:a", "x://a/a", and e-acute
LocationValues ==
    { << 104, 116, 116, 112, 58, 47, 47, 97, 47 >>,
      << 104, 116, 116, 112, 58, 47, 47, 97 >>,
      << 72, 84, 84, 80, 58, 97 >>,
      << 47, 97 >>,
      << >>,
      << 104, 116, 116, 112, 58, 47, 47 >>,
      << 109, 97, 105, 108, 116, 111, 58, 97 >>,
      << 120, 58, 47, 47, 97, 47, 97 >>,
      << 195, 169 >> }

\* statuses of the answers: 200, the five redirects, another 3xx, an error,
\* and a value that is no status code
RdStatuses == REDIRECT_CODES \cup {200, 304, 404, 1000}

\* what the host's primitive can return: a response without headers, with a
\* Location header, or with another header; or its error
RdHostResults ==
    { Ok(HostResponse(s, h, None)) :
        s \in RdStatuses,
        h \in {None, Some(<< Pair(<< 97 >>, << 49 >>) >>)}
                \cup {Some(<< Pair(<< 76, 111, 99, 97, 116, 105, 111, 110 >>, v) >>) :
                        v \in LocationValues} }
        \cup { Err("e1") }

\* A caller invokes `request` of one of the examples.
RedirectCall ==
    /\ rdPc = "idle"
    /\ \E e \in RdExamples : rdExample' = e
    /\ \E r \in RdRequests : rdReq' = r
    /\ rdPc' = "sending"
    /\ UNCHANGED <<rdHops, rdSent, rdLast, rdResult>>
    /\ UNCHANGED <<wireVars, ffiVars, brVars, entryVars, clientVars, bodyVars>>

\* `request` calls send_request, the host answers, and `request` returns or
\* calls itself with the sub-request.  The number of hops has no limit in
\* the code; the model stops following at MaxHops.
RedirectSend ==
    /\ rdPc = "sending"
    /\ rdHops < MaxHops
    /\ \E hr \in RdHostResults :
          LET answer == send_request(rdReq, hr)
              step == RequestStep(rdExample, answer)
          IN  /\ rdLast' = answer
              /\ rdPc' = step.pc
              /\ rdResult' = step.result
              /\ rdReq' = IF step.pc = "sending" THEN step.req ELSE rdReq
              /\ rdHops' = IF step.pc = "sending" THEN rdHops + 1 ELSE rdHops
    /\ rdSent' = rdSent + 1
    /\ UNCHANGED rdExample
    /\ UNCHANGED <<wireVars, ffiVars, brVars, entryVars, clientVars, bodyVars>>

\* The call is over; the next call starts afresh.
RedirectReset ==
    /\ rdPc \in {"returned", "panicked"}
    /\ rdPc' = "idle"
    /\ rdExample' = "none"
    /\ rdReq' = << >>
    /\ rdHops' = 0
    /\ rdSent' = 0
    /\ rdLast' = NotRun
    /\ rdResult' = NotRun
    /\ UNCHANGED <<wireVars, ffiVars, brVars, entryVars, clientVars, bodyVars>>

RedirectInit ==
    /\ rdPc = "idle"
    /\ rdExample = "none"
    /\ rdReq = << >>
    /\ rdHops = 0
    /\ rdSent = 0
    /\ rdLast = NotRun
    /\ rdResult = NotRun

Init ==
    WireInit /\ FfiInit /\ BridgeInit /\ EntryInit /\ ClientInit /\ BodyInit /\ RedirectInit

NextWire == SerializeDeserialize \/ DeserializeRaw \/ WireReset

SpecWire == Init /\ [][NextWire]_vars

NextFfi == FfiCallHost \/ FfiMatch \/ FfiOpenCallHost \/ FfiOpenMatch
    \/ FfiScalarCallHost \/ FfiScalarMatch \/ FfiDrop \/ FfiReset

SpecFfi == Init /\ [][NextFfi]_vars

NextBridge ==
    \/ ConvertMethod
    \/ DecodeThenEncode
    \/ EncodeThenDecode
    \/ DecodeRequest
    \/ TranslateResponse
    \/ BridgeReset

SpecBridge == Init /\ [][NextBridge]_vars

NextEntry == EntryInvoke \/ EntryDecode \/ EntryHandler \/ EntryEncode \/ EntryReset

SpecEntry == Init /\ [][NextEntry]_vars

NextClient == ClientCall \/ ClientConvert \/ ClientHostCall \/ ClientTranslate \/ ClientReset

SpecClient == Init /\ [][NextClient]_vars

NextBody == BodyConstruct \/ BodyContentType \/ BodyDeref \/ BodyDrop

SpecBody == Init /\ [][NextBody]_vars

NextRedirect == RedirectCall \/ RedirectSend \/ RedirectReset

SpecRedirect == Init /\ [][NextRedirect]_vars

(***************************************************************************)
(* C1: wire-list round trip.  For every list xs of N >= 0 byte strings     *)
(* (empty strings and zero bytes included), deserialize_list applied to    *)
(* the encoding of xs returns (does not abort) exactly xs: the same number *)
(* of items, the same bytes, the same order.                               *)
(***************************************************************************)
C1_RoundTrip ==
    wirePc = "done" =>
        /\ wireOut.abort = FALSE
        /\ Len(wireOut.slices) = Len(wireList)
        /\ SlicesBytes(wireBytes, wireOut) = wireList

\* a round trip of two items, one empty and one holding a zero byte
C1_Witness ==
    /\ wirePc = "done"
    /\ Len(wireList) = 2
    /\ wireList[1] = << >>
    /\ \E i \in 1..Len(wireList[2]) : wireList[2][i] = 0
    /\ SlicesBytes(wireBytes, wireOut) = wireList

(***************************************************************************)
(* C2: buffer ownership is a one-shot move.  In every wrapper, for every   *)
(* host behaviour (any status, pointer written or left null), a buffer     *)
(* whose pointer the host wrote is adopted exactly once by the time the    *)
(* wrapper has returned, and freed exactly once by the time the returned   *)
(* value has been dropped.                                                 *)
(***************************************************************************)
C2_AdoptedOnce ==
    /\ (ffiPc \in {"returned", "dropped"} /\ ffiPtr = "buf") => ffiAdopted = 1
    /\ (ffiPc = "dropped" /\ ffiPtr = "buf") => ffiFreed = 1

OptionFns == {"secret::get", "secret::get_effective_at", "Store::get"}

(***************************************************************************)
(* C3 as stated: on status 0 with a null pointer, secret::get,             *)
(* secret::get_effective_at and Store::get return Ok(None) and             *)
(* dictionary::get returns None; on status 0 with a non-null pointer and   *)
(* length n (n = 0 included) all four return Some of a buffer of exactly   *)
(* n bytes.                                                                *)
(***************************************************************************)
C3_AsStated ==
    (ffiPc = "returned" /\ ffiStatus = 0 /\ ffiFn \in BufferFns) =>
        IF ffiPtr = "null"
        THEN ffiResult.kind = (IF ffiFn \in OptionFns THEN "OkNone" ELSE "None")
        ELSE /\ ffiResult.kind = (IF ffiFn \in OptionFns THEN "OkSome" ELSE "Some")
             /\ Len(ffiResult.val) = Len(ffiData)

(***************************************************************************)
(* C3 amended: buffer-absence disambiguation.  On status 0 with a null     *)
(* pointer the option wrappers return Ok(None) and dictionary::get returns *)
(* None, never an error and never Some(empty).  On status 0 with a         *)
(* non-null pointer and length n (n = 0 included) the option wrappers      *)
(* return Ok(Some(b)) with b the host's n bytes; dictionary::get returns   *)
(* Some of those n bytes when they are valid UTF-8 and None when not.      *)
(***************************************************************************)
C3_Absence ==
    (ffiPc = "returned" /\ ffiStatus = 0 /\ ffiFn \in BufferFns) =>
        IF ffiPtr = "null"
        THEN ffiResult.kind = (IF ffiFn \in OptionFns THEN "OkNone" ELSE "None")
        ELSE IF ffiFn \in OptionFns
             THEN ffiResult.kind = "OkSome" /\ ffiResult.val = ffiData
        ELSE IF Utf8Valid(ffiData)
             THEN ffiResult.kind = "Some" /\ ffiResult.val = ffiData
        ELSE ffiResult.kind = "None"

\* dictionary::get succeeded with a non-null pointer and length 0 and
\* returned Some of the empty string, having adopted the buffer
C3_Witness ==
    /\ ffiPc = "returned"
    /\ ffiStatus = 0
    /\ ffiFn = "dictionary::get"
    /\ ffiPtr = "buf"
    /\ ffiData = << >>
    /\ ffiResult.kind = "Some"
    /\ ffiResult.val = << >>
    /\ ffiAdopted = 1

(***************************************************************************)
(* C4: method mapping is a bijection over exactly the seven methods in     *)
(* every transport's conversion pair: each of GET, POST, PUT, DELETE,      *)
(* HEAD, PATCH, OPTIONS converts to a host tag and (where the transport    *)
(* has the reverse conversion) back to itself, and any other method fails  *)
(* with UnsupportedMethod carrying that method.                            *)
(***************************************************************************)
C4_Bijection ==
    (brPc = "done" /\ brOp = "method") =>
        IF brIn.method \in SevenMethods
        THEN /\ brMid.kind = "Ok"
             /\ brIn.transport \in PairTransports =>
                    (brOut.kind = "Ok" /\ brOut.val = brIn.method)
        ELSE /\ brMid.kind = "Err"
             /\ brMid.val = [error |-> "UnsupportedMethod", method |-> brIn.method]

\* every header of the list has a valid name and a valid value
AllPairsValid(l) ==
    \A i \in 1..Len(l) : HeaderNameValid(l[i].name) /\ HeaderValueValid(l[i].value)

\* every value of the list is visible ASCII
AllValuesVisible(l) == \A i \in 1..Len(l) : HeaderValueToStrOk(l[i].value)

\* the header list of an optional headers field: absent reads as no headers
ListOf(opt) == IF opt.some THEN opt.val ELSE << >>

(***************************************************************************)
(* C5: status validation.  Converting a host response with status s (and   *)
(* headers that convert) succeeds if and only if 100 <= s <= 599; for      *)
(* every other s it fails with InvalidStatusCode(s).                       *)
(***************************************************************************)
C5_StatusIff ==
    (brPc = "done" /\ brOp = "decode-encode") =>
        IF brIn.status >= 100 /\ brIn.status <= 599
        THEN AllPairsValid(ListOf(brIn.headers)) => brMid.kind = "Ok"
        ELSE /\ brMid.kind = "Err"
             /\ brMid.val = [error |-> "InvalidStatusCode", status |-> brIn.status]

(***************************************************************************)
(* C6 as stated: for every host response whose header list h holds only    *)
(* valid names and values (and whose status converts), converting it to    *)
(* the ergonomic response and back yields a header list equal to h: the    *)
(* same pairs in the same order.                                           *)
(***************************************************************************)
C6_AsStated ==
    (brPc = "done" /\ brOp = "decode-encode" /\ brMid.kind = "Ok") =>
        /\ brOut.kind = "Ok"
        /\ ListOf(brOut.val.headers) = ListOf(brIn.headers)

\* a header list with every name in lower case
LowerNames(l) == [i \in 1..Len(l) |-> Pair(HeaderNameLower(l[i].name), l[i].value)]

RECURSIVE GroupByName(_)
\* a header list regrouped: names in the order of their first occurrence,
\* the values of one name together, in their original order
GroupByName(l) ==
    IF l = << >> THEN << >>
    ELSE LET IsFirst(p) == p.name = Head(l).name
             IsOther(p) == p.name # Head(l).name
         IN  SelectSeq(l, IsFirst) \o GroupByName(SelectSeq(l, IsOther))

(***************************************************************************)
(* C6 amended: for every host response whose status converts and whose     *)
(* header list h holds only valid names and values, converting it to the   *)
(* ergonomic response and back yields, when every value of h is visible    *)
(* ASCII, the list h with every name in lower case and the pairs regrouped *)
(* by name (names in the order of their first occurrence, the values of    *)
(* one name in their original order, duplicates kept), with an empty list  *)
(* becoming absent; when some value holds a byte outside visible ASCII the *)
(* conversion back panics.                                                 *)
(***************************************************************************)
C6_Regrouped ==
    (brPc = "done" /\ brOp = "decode-encode" /\ brMid.kind = "Ok") =>
        IF AllValuesVisible(ListOf(brIn.headers))
        THEN /\ brOut.kind = "Ok"
             /\ ListOf(brOut.val.headers) = GroupByName(LowerNames(ListOf(brIn.headers)))
             /\ brOut.val.headers.some <=> ListOf(brIn.headers) # << >>
        ELSE brOut.kind = "Panic"

\* a round trip of "a: 1", "b: 1", "A: 2": a duplicate name, in another
\* case, interleaved with another name
C6_Witness ==
    /\ brPc = "done"
    /\ brOp = "decode-encode"
    /\ ListOf(brIn.headers) = << Pair(<<97>>, <<49>>), Pair(<<98>>, <<49>>), Pair(<<65>>, <<50>>) >>
    /\ brOut.kind = "Ok"
    /\ ListOf(brOut.val.headers) = << Pair(<<97>>, <<49>>), Pair(<<97>>, <<50>>), Pair(<<98>>, <<49>>) >>

(***************************************************************************)
(* C7: ergonomic response round trip.  For every ergonomic response s      *)
(* whose header values are visible ASCII, encoding s to the host record    *)
(* and decoding it back succeeds and yields the same status, the same      *)
(* header entries and the same body bytes.                                 *)
(***************************************************************************)
C7_ErgRoundTrip ==
    (brPc = "done" /\ brOp = "encode-decode" /\ AllValuesVisible(brIn.headers)) =>
        /\ brMid.kind = "Ok"
        /\ brOut.kind = "Ok"
        /\ brOut.val.status = brIn.status
        /\ brOut.val.headers = brIn.headers
        /\ brOut.val.body.inner = brIn.body.inner

\* a round trip of a response with status 599, three header entries under
\* two names and a body holding a zero byte
C7_Witness ==
    /\ brPc = "done"
    /\ brOp = "encode-decode"
    /\ brIn.status = 599
    /\ Len(brIn.headers) = 3
    /\ brIn.headers[1].name = brIn.headers[2].name
    /\ brIn.headers[3].name # brIn.headers[1].name
    /\ brIn.body.inner = << 0, 255 >>
    /\ brOut.kind = "Ok"
    /\ brOut.val.headers = brIn.headers

(***************************************************************************)
(* C8: zero-header collapse.  Whenever encoding an ergonomic response      *)
(* yields a host record, its headers field is absent if and only if the    *)
(* response has zero headers; otherwise it is a present, non-empty list    *)
(* with one pair per header entry.  (Encoding yields a record for every    *)
(* response whose header values are visible ASCII.)                        *)
(***************************************************************************)
C8_ZeroHeaderCollapse ==
    (brPc = "done" /\ brOp = "encode-decode") =>
        /\ AllValuesVisible(brIn.headers) => brMid.kind = "Ok"
        /\ brMid.kind = "Ok" =>
              /\ (brMid.val.headers = None) <=> (Len(brIn.headers) = 0)
              /\ Len(brIn.headers) # 0 =>
                    /\ brMid.val.headers.some
                    /\ brMid.val.headers.val # << >>
                    /\ Len(brMid.val.headers.val) = Len(brIn.headers)
                    /\ \A i \in 1..Len(brIn.headers) :
                          brMid.val.headers.val[i] = brIn.headers[i]

\* a response without headers was encoded with headers absent
C8_Witness ==
    /\ brPc = "done"
    /\ brOp = "encode-decode"
    /\ Len(brIn.headers) = 0
    /\ brMid.kind = "Ok"
    /\ brMid.val.headers = None

(***************************************************************************)
(* C9: entry-point error isolation.  Whenever the user handler returns     *)
(* Err(e) - which it can only for a request that decoded - process returns *)
(* a response with status 500 whose body is exactly the bytes of e's       *)
(* display string.                                                         *)
(***************************************************************************)
C9_HandlerError ==
    (handlerResult.kind = "Err") =>
        /\ pc = "returned"
        /\ response.status = 500
        /\ response.body = Some(handlerResult.val)

\* the handler failed with the display string e-acute on a decoded request
C9_Witness ==
    /\ pc = "returned"
    /\ handlerCalls = 1
    /\ handlerResult = Err(<< 195, 169 >>)
    /\ response.status = 500
    /\ response.body = Some(<< 195, 169 >>)

\* the host request converts: its URI parses and every header is valid
Decodable(r) == UriValid(r.uri) /\ AllPairsValid(r.headers)

(***************************************************************************)
(* C10: decode-failure ordering.  When the inbound request cannot be       *)
(* converted (invalid URI, or an invalid header name or value), process    *)
(* returns status 500 with body "http request decode error" and the        *)
(* handler is never invoked; in every execution the handler is invoked at  *)
(* most once, and only after a successful decode.                          *)
(***************************************************************************)
C10_DecodeFailure ==
    /\ handlerCalls <= 1
    /\ handlerCalls = 1 => (Decodable(req) /\ pc \in {"handled", "returned", "panicked"})
    /\ (pc \notin {"idle", "invoked"} /\ ~Decodable(req)) =>
          /\ pc = "returned"
          /\ handlerCalls = 0
          /\ response = HostResponse(500, Some(<< >>), Some(DecodeErrorText))

\* a request with the URI "a/" was answered without the handler running
C10_Witness ==
    /\ pc = "returned"
    /\ req.uri = << 97, 47 >>
    /\ AllPairsValid(req.headers)
    /\ handlerCalls = 0
    /\ response.status = 500
    /\ response.body = Some(DecodeErrorText)

(***************************************************************************)
(* C11: the entry point never faults into the host.  For every inbound     *)
(* request and every handler result, an Ok response whose header values    *)
(* hold bytes outside visible ASCII included, process never panics: once   *)
(* it has left the handler it has returned a response record.              *)
(***************************************************************************)
C11_NeverPanics ==
    /\ pc # "panicked"
    /\ (handlerCalls = 1 /\ pc \notin {"handled"}) => (pc = "returned" /\ response # << >>)

(***************************************************************************)
(* C12 as stated: converting a host request or a host response whose       *)
(* header list holds a name or a value the ergonomic header type cannot    *)
(* represent returns Err(InvalidBody), for every such input and in each of *)
(* the three conversions.                                                  *)
(***************************************************************************)
C12_AsStated ==
    (brPc = "done" /\ brOp \in {"request", "decode-encode", "translate"}
        /\ ~AllPairsValid(IF brOp = "request" THEN brIn.headers ELSE ListOf(brIn.headers))) =>
        brMid = InvalidBody

(***************************************************************************)
(* C12 amended: converting a host request or a host response whose header  *)
(* list holds a name or a value the ergonomic header type cannot represent *)
(* never panics and returns a typed error: Err(InvalidBody) from           *)
(* TryFrom<Request> and from translate_http_client_to_response for every   *)
(* such input, and from TryFrom<Response> when the status lies in 100..999;*)
(* TryFrom<Response> checks the status first and returns                   *)
(* Err(InvalidStatusCode(s)) for a status s outside 100..999.              *)
(***************************************************************************)
C12_TypedError ==
    (brPc = "done" /\ brOp \in {"request", "decode-encode", "translate"}
        /\ ~AllPairsValid(IF brOp = "request" THEN brIn.headers ELSE ListOf(brIn.headers))) =>
        IF brOp = "decode-encode" /\ ~(brIn.status >= 100 /\ brIn.status <= 999)
        THEN brMid = InvalidStatusCode(brIn.status)
        ELSE brMid = InvalidBody

\* a host response with status 200 and the header "a: \n", whose value holds
\* a control byte, was refused with InvalidBody
C12_Witness ==
    /\ brPc = "done"
    /\ brOp = "decode-encode"
    /\ brIn.status = 200
    /\ brIn.headers = Some(<< Pair(<<97>>, <<10>>) >>)
    /\ brMid = InvalidBody

(***************************************************************************)
(* C13: send_request never panics while converting the request.  For every *)
(* ergonomic request, one whose header values hold bytes outside visible   *)
(* ASCII included, the conversion ends with a host request or a typed Err. *)
(***************************************************************************)
C13_ConvertNeverPanics ==
    /\ clPc # "panicked"
    /\ clPc \notin {"idle", "called"} => clHostReq.kind \in {"Ok", "Err"}

\* the request converts: a supported method and visible-ASCII header values
Convertible(r) == r.method \in SevenMethods /\ AllValuesVisible(r.headers)

(***************************************************************************)
(* C14: send_request invokes the host's outbound-call primitive at most    *)
(* once per call: by the time it has returned, exactly once when the       *)
(* request converted and zero times when the conversion failed             *)
(* (unsupported method); a host error or a 3xx response is returned as it  *)
(* is, without a second call.                                              *)
(***************************************************************************)
C14_HostCalledOnce ==
    /\ clHostCalls <= 1
    /\ clHostCalls = 1 => Convertible(clReq)
    /\ clPc = "done" => clHostCalls = (IF Convertible(clReq) THEN 1 ELSE 0)
    /\ clPc = "panicked" => clHostCalls = 0

\* the host answered the one call with status 301 and send_request returned
\* that response
C14_Witness ==
    /\ clPc = "done"
    /\ clHostCalls = 1
    /\ clHostResult.kind = "Ok"
    /\ clHostResult.val.status = 301
    /\ clResult.kind = "Ok"
    /\ clResult.val.status = 301

(***************************************************************************)
(* C15: host-call failure mapping.  When the host's primitive returns its  *)
(* own error e, send_request returns Err(BindgenHttpError(e)) wrapping e   *)
(* unchanged, and no response conversion is attempted.                     *)
(***************************************************************************)
C15_HostError ==
    clHostResult.kind = "Err" =>
        /\ clPc = "done"
        /\ clResult = Err([error |-> "BindgenHttpError", inner |-> clHostResult.val])
        /\ clTranslated = 0

\* the host failed with e2 and send_request returned BindgenHttpError(e2)
C15_Witness ==
    /\ clPc = "done"
    /\ clHostCalls = 1
    /\ clHostResult = Err("e2")
    /\ clResult = BindgenHttpError("e2")
    /\ clTranslated = 0

(***************************************************************************)
(* C16: outbound response status error.  When the host returns to          *)
(* send_request a response whose status is no valid HTTP status (outside   *)
(* 100..999, the range the status type accepts), send_request fails with   *)
(* InvalidStatusCode carrying the raw code.                                *)
(***************************************************************************)
C16_InvalidStatus ==
    (clPc = "done" /\ clHostResult.kind = "Ok"
        /\ ~(clHostResult.val.status >= 100 /\ clHostResult.val.status <= 999)) =>
        clResult = InvalidStatusCode(clHostResult.val.status)

(***************************************************************************)
(* C17: body absence maps to an explicit empty body.  Whenever a host      *)
(* request or a host response converts (TryFrom<Request>,                  *)
(* TryFrom<Response>, translate_http_client_to_response), the ergonomic    *)
(* message has a body: of length 0 when the host's body is absent, and     *)
(* holding exactly the bytes b when the host's body is present as b.       *)
(***************************************************************************)
C17_BodyAbsence ==
    (brPc = "done" /\ brOp \in {"request", "decode-encode", "translate"} /\ brMid.kind = "Ok") =>
        IF brIn.body.some
        THEN brMid.val.body.inner = brIn.body.val
        ELSE Len(brMid.val.body.inner) = 0

\* a host request without a body was converted to a request with a body of
\* length 0
C17_Witness ==
    /\ brPc = "done"
    /\ brOp = "request"
    /\ brIn.body = None
    /\ brMid.kind = "Ok"
    /\ Len(brMid.val.body.inner) = 0

(***************************************************************************)
(* C18: Store::open maps the host status totally.  Status 0 yields a Store *)
(* holding the handle the host wrote, 1 yields NoSuchStore, 2 yields       *)
(* AccessDenied, every other status n yields Other("unexpected status: n");*)
(* no Store is produced on a non-zero status, whatever the host wrote to   *)
(* the handle out-parameter.                                               *)
(***************************************************************************)
C18_StoreOpen ==
    (ffiPc \in {"returned", "dropped"} /\ ffiFn = "Store::open") =>
        /\ ffiResult.kind \in {"OkStore", "Err"}
        /\ ffiResult.kind = "OkStore" <=> ffiStatus = 0
        /\ ffiStatus = 0 => ffiResult.val = [handle |-> ffiHandle]
        /\ ffiStatus = 1 => ffiResult.val = [error |-> "NoSuchStore"]
        /\ ffiStatus = 2 => ffiResult.val = [error |-> "AccessDenied"]
        /\ ffiStatus > 2 =>
              ffiResult.val = [error |-> "Other",
                               text |-> [msg |-> "unexpected status", status |-> ffiStatus]]

\* the host wrote the handle 7 and returned status 1: NoSuchStore, no Store
C18_Witness ==
    /\ ffiPc = "returned"
    /\ ffiFn = "Store::open"
    /\ ffiStatus = 1
    /\ ffiHandle = 7
    /\ ffiResult.kind = "Err"
    /\ ffiResult.val = [error |-> "NoSuchStore"]

SecretFns == {"secret::get", "secret::get_effective_at"}

(***************************************************************************)
(* C19: secret::get and secret::get_effective_at return Ok(Some(value))    *)
(* when the secret exists (status 0, non-null pointer), Ok(None) when it   *)
(* is not found (status 1, or status 0 with a null pointer), and           *)
(* Err(status) when the host reports a failure status.                     *)
(***************************************************************************)
C19_SecretResult ==
    (ffiPc = "returned" /\ ffiFn \in SecretFns) =>
        IF ffiStatus = 0 /\ ffiPtr = "buf"
        THEN ffiResult.kind = "OkSome" /\ ffiResult.val = ffiData
        ELSE IF ffiStatus = 0 \/ ffiStatus = 1
        THEN ffiResult.kind = "OkNone"
        ELSE ffiResult.kind = "Err" /\ ffiResult.val = ffiStatus

(***************************************************************************)
(* C20: dictionary::get returns Some(value) exactly when the host reports  *)
(* status 0 with a non-null buffer whose bytes are valid UTF-8; it returns *)
(* None when the key does not exist (status 1, or status 0 with a null     *)
(* pointer) or the bytes are not valid UTF-8, and in the invalid-UTF-8     *)
(* case the adopted buffer is freed exactly once.                          *)
(***************************************************************************)
C20_DictionaryGet ==
    (ffiPc \in {"returned", "dropped"} /\ ffiFn = "dictionary::get") =>
        /\ ffiResult.kind = "Some" <=> (ffiStatus = 0 /\ ffiPtr = "buf" /\ Utf8Valid(ffiData))
        /\ ffiResult.kind = "Some" => ffiResult.val = ffiData
        /\ (ffiStatus = 1 \/ (ffiStatus = 0 /\ (ffiPtr = "null" \/ ~Utf8Valid(ffiData)))) =>
              ffiResult.kind = "None"
        /\ (ffiStatus = 0 /\ ffiPtr = "buf" /\ ~Utf8Valid(ffiData)) =>
              (ffiAdopted = 1 /\ ffiFreed = 1)

\* the host returned the byte 0xFF, which is not UTF-8: None, and the
\* adopted buffer was freed once, before the wrapper returned
C20_Witness ==
    /\ ffiPc = "returned"
    /\ ffiFn = "dictionary::get"
    /\ ffiStatus = 0
    /\ ffiPtr = "buf"
    /\ ffiData = << 255 >>
    /\ ffiResult.kind = "None"
    /\ ffiAdopted = 1
    /\ ffiFreed = 1

\* the output of a list operation on a successful call with a buffer that
\* deserialize_list accepts: one (value, score) per wire-list item, the score
\* kept as its eight little-endian bytes, 0.0 being eight zero bytes
ExpectedScored(data) ==
    LET items == SlicesBytes(data, deserialize_list(data)) IN
    [i \in 1..Len(items) |->
        IF Len(items[i]) > 8
        THEN [value |-> SubSeq(items[i], 1, Len(items[i]) - 8),
              score |-> SubSeq(items[i], Len(items[i]) - 7, Len(items[i]))]
        ELSE [value |-> << >>, score |-> << 0, 0, 0, 0, 0, 0, 0, 0 >>]]

(***************************************************************************)
(* C21: scored-entry decode.  In zrange_by_score and zscan, on a           *)
(* successful call with a buffer, each wire-list item of length L > 8      *)
(* decodes to (its first L - 8 bytes, the score in its last 8 bytes) and   *)
(* each item of length L <= 8 to (empty value, 0.0), without a panic; the  *)
(* output has one entry per item in the same order, and the two operations *)
(* decode the same buffer identically.                                     *)
(***************************************************************************)
C21_ScoredDecode ==
    (ffiPc = "returned" /\ ffiFn \in {"Store::zrange_by_score", "Store::zscan"}
        /\ ffiStatus = 0 /\ ffiPtr = "buf" /\ ~deserialize_list(ffiData).abort) =>
        /\ ffiResult.kind = "OkList"
        /\ ffiResult.val = ExpectedScored(ffiData)
        /\ Store_zrange_by_score(ffiStatus, ffiPtr, ffiData) = Store_zscan(ffiStatus, ffiPtr, ffiData)

\* zscan decoded a list of two items, one of eight bytes and one of nine:
\* (empty, 0.0) and ("A", 1.0)
C21_Witness ==
    /\ ffiPc = "returned"
    /\ ffiFn = "Store::zscan"
    /\ ffiStatus = 0
    /\ ffiPtr = "buf"
    /\ ffiData = serialize_list(<< << 1, 2, 3, 4, 5, 6, 7, 8 >>,
                                   << 65, 0, 0, 0, 0, 0, 0, 240, 63 >> >>)
    /\ ffiResult.kind = "OkList"
    /\ ffiResult.val = << [value |-> << >>, score |-> << 0, 0, 0, 0, 0, 0, 0, 0 >>],
                          [value |-> << 65 >>, score |-> << 0, 0, 0, 0, 0, 0, 240, 63 >>] >>

(***************************************************************************)
(* C22: deserialize_list returns an empty sequence, without panicking, for *)
(* every buffer of length 0, 1, 2 or 3, and for every buffer of length     *)
(* >= 4 whose count field is 0, whatever bytes follow it.                  *)
(***************************************************************************)
C22_EmptyResult ==
    (wirePc = "rawDone"
        /\ (Len(wireBytes) < 4 \/ SubSeq(wireBytes, 1, 4) = << 0, 0, 0, 0 >>)) =>
        wireOut = [abort |-> FALSE, slices |-> << >>]

\* a buffer with the count 0 followed by one more byte gave the empty list
C22_Witness ==
    /\ wirePc = "rawDone"
    /\ wireBytes = << 0, 0, 0, 0, 65 >>
    /\ wireOut = [abort |-> FALSE, slices |-> << >>]

\* the count field of a buffer of at least four bytes
CountOf(bytes) == FromLeBytes(bytes, 0)

\* Items n.. of a buffer whose length table fits, laid out from offset p:
\* every declared payload lies inside the buffer (sep = 0), or every declared
\* payload and the byte that follows it do (sep = 1).  Offsets are computed
\* in unbounded arithmetic, with no wraparound.
RECURSIVE ItemsFit(_, _, _, _, _)
ItemsFit(bytes, count, n, p, sep) ==
    IF n = count THEN TRUE
    ELSE LET size == FromLeBytes(bytes, 4 + 4 * n) IN
         /\ size.hi = 0
         /\ p + size.lo + sep <= Len(bytes)
         /\ ItemsFit(bytes, count, n + 1, p + size.lo + 1, sep)

\* the count, every length field and every declared payload fit
AllFit(bytes, sep) ==
    /\ CountOf(bytes).hi = 0
    /\ 4 + 4 * CountOf(bytes).lo <= Len(bytes)
    /\ ItemsFit(bytes, CountOf(bytes).lo, 0, 4 + 4 * CountOf(bytes).lo, sep)

\* every returned slice lies inside the buffer
SlicesInside(bytes, out) ==
    \A i \in 1..Len(out.slices) :
        out.slices[i].off + out.slices[i].len <= Len(bytes)

\* C23 as the specification states it: deserialize_list aborts exactly when
\* the length table or some declared payload does not fit
C23_AsStated ==
    (wirePc \in {"done", "rawDone"} /\ Len(wireBytes) >= 4) =>
        (wireOut.abort <=> ~AllFit(wireBytes, 0))

(***************************************************************************)
(* C23: deserialize_list validates instead of reading out of bounds.  It   *)
(* either aborts or returns only slices that lie inside the buffer, and on *)
(* a buffer of at least four bytes it aborts exactly when the length table *)
(* does not fit or some declared payload together with the one byte that   *)
(* follows it does not fit: the byte after every payload, the last one     *)
(* included, must be inside the buffer.                                    *)
(***************************************************************************)
C23_Validates ==
    (wirePc \in {"done", "rawDone"}) =>
        /\ ~wireOut.abort => SlicesInside(wireBytes, wireOut)
        /\ Len(wireBytes) >= 4 => (wireOut.abort <=> ~AllFit(wireBytes, 1))

\* a buffer declaring one empty item, its count and length field filling the
\* buffer exactly, was rejected for the missing byte after the payload
C23_Witness ==
    /\ wirePc = "rawDone"
    /\ wireBytes = << 1, 0, 0, 0, 0, 0, 0, 0 >>
    /\ AllFit(wireBytes, 0)
    /\ wireOut.abort

(***************************************************************************)
(* C30: whenever deserialize_list returns on an input of at least four     *)
(* bytes, it returns exactly `count` slices, at increasing offsets, not    *)
(* overlapping, each separated from the next by exactly one byte, and all  *)
(* starting at or after 4 + 4 * count; this holds also for the counts for  *)
(* which 4 + 4 * count wraps in 32-bit arithmetic, where it never returns. *)
(***************************************************************************)
C30_SliceLayout ==
    (wirePc \in {"done", "rawDone"} /\ Len(wireBytes) >= 4 /\ ~wireOut.abort) =>
        /\ CountOf(wireBytes).hi = 0
        /\ Len(wireOut.slices) = CountOf(wireBytes).lo
        /\ \A i \in 1..Len(wireOut.slices) :
              /\ wireOut.slices[i].off >= 4 + 4 * CountOf(wireBytes).lo
              /\ i < Len(wireOut.slices) =>
                    wireOut.slices[i + 1].off
                        = wireOut.slices[i].off + wireOut.slices[i].len + 1

\* a buffer of any content declaring two items, of lengths 1 and 0, was
\* decoded into the slices at offsets 12 and 14
C30_Witness ==
    /\ wirePc = "rawDone"
    /\ wireBytes = << 2, 0, 0, 0, 1, 0, 0, 0, 0, 0, 0, 0, 65, 0, 0 >>
    /\ ~wireOut.abort
    /\ wireOut.slices = << [off |-> 12, len |-> 1], [off |-> 14, len |-> 0] >>

\* the key-value operations that have no arm for a status other than 0
StoreFns == {"Store::get", "Store::scan", "Store::zrange_by_score", "Store::zscan",
             "Store::bf_exists"}

(***************************************************************************)
(* C25: Store::get, scan, zrange_by_score, zscan and bf_exists have no     *)
(* not-found arm: every non-zero status n, 1 and 2 included, gives         *)
(* Err(Other("unexpected status: n")), never an Ok default and never a     *)
(* panic.                                                                  *)
(***************************************************************************)
C25_StoreOtherError ==
    (ffiPc = "returned" /\ ffiFn \in StoreFns /\ ffiStatus # 0) =>
        /\ ffiResult.kind = "Err"
        /\ ffiResult.val = [error |-> "Other",
                            text |-> [msg |-> "unexpected status", status |-> ffiStatus]]

\* Store::get returned Err(Other("unexpected status: 1")) for the status 1,
\* which secret::get reads as not found
C25_Witness ==
    /\ ffiPc = "returned"
    /\ ffiFn = "Store::get"
    /\ ffiStatus = 1
    /\ ffiResult.kind = "Err"
    /\ ffiResult.val.error = "Other"
    /\ ffiResult.val.text.status = 1

C28_AsStated ==
    pc = "returned" => response.body # Some(EncodeErrorText)

(***************************************************************************)
(* C28: the "http response encode error" branch of process is never taken. *)
(* A response returned by process has the body "http response encode       *)
(* error" only when the handler itself supplied that text: as the display  *)
(* string of its error, answered with the synthesized 500, or as the body  *)
(* of its Ok response, returned converted with the handler's own status.   *)
(* Once the handler has returned Ok, process either panics in the          *)
(* conversion or returns the converted response.                           *)
(***************************************************************************)
C28_EncodeBranchNotTaken ==
    /\ (pc = "returned" /\ response.body = Some(EncodeErrorText)) =>
          \/ handlerResult = Err(EncodeErrorText)
          \/ /\ handlerResult.kind = "Ok"
             /\ handlerResult.val.body.inner = EncodeErrorText
             /\ response.status = handlerResult.val.status
    /\ (pc = "returned" /\ handlerResult.kind = "Ok") =>
          /\ ResponseToHost(handlerResult.val).kind = "Ok"
          /\ response = ResponseToHost(handlerResult.val).val

\* the handler answered 200 with the text of the encode error as its body,
\* and process returned it converted
C28_Witness ==
    /\ pc = "returned"
    /\ handlerResult.kind = "Ok"
    /\ handlerResult.val.status = 200
    /\ response.status = 200
    /\ response.body = Some(EncodeErrorText)

(***************************************************************************)
(* C29: no response returned by process carries headers that are present   *)
(* but empty, the synthesized 500 responses included: the headers of every *)
(* returned response are absent or hold at least one pair.                 *)
(***************************************************************************)
C29_NoEmptyHeaders ==
    pc = "returned" => (~response.headers.some \/ Len(response.headers.val) > 0)

\* the label each constructor is documented to give
LabelOf(ctor) ==
    CASE ctor \in {"String", "&str", "Body::empty", "Body::default"} -> "text/plain; charset=utf-8"
      [] ctor \in {"Vec<u8>", "&[u8]"} -> "application/octet-stream"
      [] ctor = "serde_json::Value" -> "application/json"

(***************************************************************************)
(* C24: Body content-type label invariant.  The label of a Body is         *)
(* determined solely by the constructor it was made with (String, &str,    *)
(* Body::empty and Body::default give text/plain; charset=utf-8, Vec<u8>   *)
(* and &[u8] give application/octet-stream, a JSON value gives             *)
(* application/json), whatever bytes it holds, and it stays so under every *)
(* operation on the existing Body; content_type() returns that label.      *)
(***************************************************************************)
C24_LabelByConstructor ==
    bodyPc = "built" =>
        /\ bodyVal.content_type = LabelOf(bodyCtor)
        /\ bodySeen.op = "content_type" => bodySeen.val = LabelOf(bodyCtor)

\* a Body made from the bytes "A{" as &[u8], which are text, is still
\* labelled application/octet-stream after two operations on it
C24_Witness ==
    /\ bodyPc = "built"
    /\ bodyCtor = "&[u8]"
    /\ bodyVal.inner = << 65, 123 >>
    /\ bodyReads = MaxBodyReads
    /\ bodySeen = [op |-> "content_type", val |-> "application/octet-stream"]

\* Location values the examples can follow: "http://a/", "http://a",
\* "HTTP:a" and "x://a/a", and in markdown-render, which asks for no host,
\* "mailto:a" as well
UsableLocations(example) ==
    { << 104, 116, 116, 112, 58, 47, 47, 97, 47 >>,
      << 104, 116, 116, 112, 58, 47, 47, 97 >>,
      << 72, 84, 84, 80, 58, 97 >>,
      << 120, 58, 47, 47, 97, 47, 97 >> }
        \cup (IF example = "markdown-render"
              THEN { << 109, 97, 105, 108, 116, 111, 58, 97 >> } ELSE {})

\* the answer is a response with a Location header
HasLocation(answer) ==
    answer.kind = "Ok" /\ \E i \in 1..Len(answer.val.headers) : answer.val.headers[i].name = LOCATION

\* the answer is a redirect response with a Location header the example
\* can follow
FollowableRedirect(example, answer) ==
    /\ answer.kind = "Ok"
    /\ answer.val.status \in {301, 302, 303, 307, 308}
    /\ \E i \in 1..Len(answer.val.headers) :
          /\ answer.val.headers[i].name = LOCATION
          /\ answer.val.headers[i].value \in UsableLocations(example)

\* C27 as the specification states it: `request` returns Ok only for a
\* final status 200 and Err(status), the status of the response, otherwise
C27_AsStated ==
    (rdPc = "returned" /\ rdLast.kind = "Ok") =>
        IF rdLast.val.status = 200 THEN rdResult.kind = "Ok"
        ELSE rdResult.kind = "Err" /\ rdResult.val = rdLast.val.status

(***************************************************************************)
(* C27: the example helper `request` issues one further GET for every      *)
(* redirect response (301, 302, 303, 307, 308) whose Location header it    *)
(* can use, with no bound on the number of hops: as long as every answer   *)
(* is such a redirect it has not returned and has called send_request once *)
(* per hop.  It returns only once an answer is not such a redirect: Ok     *)
(* with the response for status 200, Err(500) for a redirect whose         *)
(* Location header cannot be used, Err(status) for any other response, and *)
(* Err(405), Err(500) or Err(400) when send_request fails.                 *)
(***************************************************************************)
C27_FollowsRedirects ==
    /\ (rdPc = "sending" /\ rdHops > 0) =>
          /\ FollowableRedirect(rdExample, rdLast)
          /\ rdReq.method = "GET"
          /\ rdSent = rdHops
    /\ rdPc = "returned" =>
          /\ rdSent = rdHops + 1
          /\ ~FollowableRedirect(rdExample, rdLast)
          /\ rdResult.kind \in {"Ok", "Err"}
          /\ rdResult.kind = "Ok" <=> (rdLast.kind = "Ok" /\ rdLast.val.status = 200)
          /\ rdResult.kind = "Ok" => rdResult.val = rdLast.val
          /\ (rdResult.kind = "Err" /\ rdLast.kind = "Ok") =>
                rdResult.val = IF rdLast.val.status \in {301, 302, 303, 307, 308}
                                  /\ HasLocation(rdLast)
                               THEN 500 ELSE rdLast.val.status
          /\ rdLast.kind = "Err" =>
                rdResult.val = CASE rdLast.val.error = "UnsupportedMethod" -> 405
                                 [] rdLast.val.error = "BindgenHttpError" -> 500
                                 [] rdLast.val.error = "InvalidBody" -> 400

\* every call so far was answered with a redirect: `request` has followed
\* as many hops as the model allows and has not returned
C27_Witness ==
    /\ rdPc = "sending"
    /\ rdHops = MaxHops
    /\ rdSent = MaxHops
    /\ FollowableRedirect(rdExample, rdLast)
    /\ rdReq.method = "GET"

====
